---- MODULE Spec2Model ----
(***************************************************************************)
(* Jury registry, grade authorization, grade ledger and audit log of the   *)
(* istaGm server (CotesModel / EtudiantModel / Model), with the relational *)
(* tables as state and one action per model method.                        *)
(***************************************************************************)
EXTENDS Integers, Sequences, FiniteSets, TLC

(* ------------------------------ bounds -------------------------------- *)
MaxJuryId == 2        \* AUTO_INCREMENT ceiling of table jury
MaxNiveauJuryId == 2  \* AUTO_INCREMENT ceiling of table niveau_jury
MaxInsertions == 2    \* rows of table insertion
MaxDate == 1          \* clock readings 0..MaxDate (date_insert)
MaxParcoursId == 1    \* AUTO_INCREMENT ceiling of table promotion_etudiant
MaxAnneeId == 3       \* AUTO_INCREMENT ceiling of table annee
MaxFicheId == 1       \* AUTO_INCREMENT ceiling of table fiche_cotation where sheets are deleted

(* SQL NULL / JS null for an id column and for a nullable grade *)
NoId == 0
NoValue == -100

(* ------------------------- strings as char lists ----------------------- *)
Digits == <<"0", "1", "2", "3", "4", "5", "6", "7", "8", "9">>

IsDigit(ch) == \E i \in 1..10 : Digits[i] = ch

DigitVal(ch) == (CHOOSE i \in 1..10 : Digits[i] = ch) - 1

\* String.prototype.toUpperCase on one character
ToUpperCase(ch) ==
  CASE ch = "g" -> "G"
    [] ch = "m" -> "M"
    [] ch = "d" -> "D"
    [] OTHER -> ch

\* the longest all-digit suffix of s: the match of /\d+$/ (<<>> when none)
RECURSIVE TrailingDigits(_)
TrailingDigits(s) ==
  IF s = <<>> \/ ~IsDigit(s[Len(s)]) THEN <<>>
  ELSE Append(TrailingDigits(SubSeq(s, 1, Len(s) - 1)), s[Len(s)])

\* parseInt(ds, 10) of a non-empty digit string
RECURSIVE ParseInt(_)
ParseInt(ds) ==
  IF ds = <<>> THEN 0
  ELSE 10 * ParseInt(SubSeq(ds, 1, Len(ds) - 1)) + DigitVal(ds[Len(ds)])

\* Number.prototype.toString of a natural number
RECURSIVE NumToString(_)
NumToString(n) ==
  IF n < 10 THEN <<Digits[n + 1]>>
  ELSE Append(NumToString(n \div 10), Digits[(n % 10) + 1])

\* String.prototype.padStart(3, '0')
RECURSIVE PadStart3(_)
PadStart3(s) == IF Len(s) >= 3 THEN s ELSE PadStart3(<<"0">> \o s)

\* designation.split(' ').map(word => word.charAt(0)).join('').toUpperCase()
\* on a designation given as its list of words
RECURSIVE Initials(_)
Initials(words) ==
  IF words = <<>> THEN <<>>
  ELSE (IF Head(words) = <<>> THEN <<>> ELSE <<ToUpperCase(Head(words)[1])>>)
       \o Initials(Tail(words))

(* ------------------------------- state --------------------------------- *)
VARIABLES
  agent,           \* table agent: the ids present
  section,         \* table section: id -> designation (list of words)
  matiere,         \* table matiere: id -> [id_unite]
  unite,           \* table unite: id -> [id_promotion]
  promotion,       \* table promotion: id -> [id_niveau]
  jury,            \* table jury: id -> row
  juryAutoInc,     \* next AUTO_INCREMENT id of jury
  niveau_jury,     \* table niveau_jury: id -> [id_niveau, id_jury, id_annee]
  njAutoInc,       \* next AUTO_INCREMENT id of niveau_jury
  fiche_cotation,  \* table fiche_cotation: id -> row
  ficheAutoInc,    \* next AUTO_INCREMENT id of fiche_cotation
  insertion,       \* table insertion, in id order (row i has id i)
  response,        \* what the last call returned to its caller
  administratif_etudiant,  \* table administratif_etudiant: id -> [id_etudiant]
  promotion_etudiant,      \* table promotion_etudiant: id -> row
  peAutoInc,       \* next AUTO_INCREMENT id of promotion_etudiant
  pc,              \* the calls in flight: call -> where it stands, what it read
  annee,           \* table annee: id -> [debut, fin]
  anneeAutoInc     \* next AUTO_INCREMENT id of annee

refTables == <<agent, section, matiere, unite, promotion, administratif_etudiant,
               annee, anneeAutoInc>>
parcoursTables == <<promotion_etudiant, peAutoInc>>
juryTables == <<jury, juryAutoInc, niveau_jury, njAutoInc>>
coteTables == <<fiche_cotation, ficheAutoInc, insertion>>
vars == <<agent, section, matiere, unite, promotion, jury, juryAutoInc,
          niveau_jury, njAutoInc, fiche_cotation, ficheAutoInc, insertion,
          response, administratif_etudiant, promotion_etudiant, peAutoInc, pc,
          annee, anneeAutoInc>>

\* the calls that run query by query, interleaved with one another
Procs == {"del", "aff1", "aff2", "ret", "mod", "mod2"}

\* a call not started: no jury row read, no old value read
Idle == [at |-> "idle", j |-> NoId, lastVal |-> NoValue]

\* tables this core only reads: niveau, etudiant
Niveaux == {1, 2}

\* the ids of the stored academic years
Annees == DOMAIN annee

Etudiants == {1}

validCotes == {"tp", "td", "examen", "rattrapage"}

Init ==
  /\ agent = {1, 2}
  /\ section = (1 :> << <<"g", "e", "n", "i", "e">>, <<"M", "e", "c", "a">> >>) @@
               (2 :> << <<"d", "r", "o", "i", "t">> >>)
  /\ matiere = (1 :> [id_unite |-> 1])
  /\ unite = (1 :> [id_promotion |-> 1])
  /\ promotion = (1 :> [id_niveau |-> 1])
  /\ jury = <<>>
  /\ juryAutoInc = 1
  /\ niveau_jury = <<>>
  /\ njAutoInc = 1
  /\ fiche_cotation = <<>>
  /\ ficheAutoInc = 1
  /\ insertion = <<>>
  /\ response = [op |-> "none", success |-> TRUE, error |-> "", code |-> 0,
                 thrown |-> FALSE]
  /\ administratif_etudiant = (1 :> [id_etudiant |-> 1])
  /\ promotion_etudiant = <<>>
  /\ peAutoInc = 1
  /\ pc = [p \in Procs |-> Idle]
  /\ annee = (1 :> [debut |-> 1, fin |-> 2])
  /\ anneeAutoInc = 2

(* --------------------------- result envelope --------------------------- *)
\* Model.errorResponse(message, code)
errorResponse(op, message, code) ==
  [op |-> op, success |-> FALSE, error |-> message, code |-> code, thrown |-> FALSE]

\* the envelope Model.query returns when the statement ran
queryOk(op) ==
  [op |-> op, success |-> TRUE, error |-> "", code |-> 0, thrown |-> FALSE]

\* the envelope Model.query returns when the driver raised: success false
\* and no data key
queryFault(op) ==
  [op |-> op, success |-> FALSE, error |-> "driver error", code |-> 0, thrown |-> FALSE]

\* the call rejected: reading .data[0] of a fault envelope is a TypeError
thrownError(op) ==
  [op |-> op, success |-> FALSE, error |-> "TypeError", code |-> 0, thrown |-> TRUE]

(* ---------------------------- jury registry ---------------------------- *)
JuryIds == DOMAIN jury

\* remove key k from the function f
Without(f, k) == [x \in (DOMAIN f) \ {k} |-> f[x]]

\* getJuryById: the row joined with its section (JOIN section)
getJuryById(id) == id \in JuryIds /\ jury[id].id_section \in DOMAIN section

JurysOfSection(sectionId) == {j \in JuryIds : jury[j].id_section = sectionId}

\* SELECT code FROM jury WHERE id_section = ? ORDER BY id DESC LIMIT 1
LastJuryOfSection(sectionId) ==
  CHOOSE j \in JurysOfSection(sectionId) :
    \A k \in JurysOfSection(sectionId) : k <= j

generateJuryCode(sectionId) ==
  LET sectionPrefix == IF sectionId \in DOMAIN section
                       THEN Initials(section[sectionId])
                       ELSE <<"J", "U", "R", "Y">>
      match == IF JurysOfSection(sectionId) = {} THEN <<>>
               ELSE TrailingDigits(jury[LastJuryOfSection(sectionId)].code)
      number == IF match # <<>> THEN ParseInt(match) + 1 ELSE 1
  IN sectionPrefix \o <<"-">> \o PadStart3(NumToString(number))

RoleFields == <<"id_president", "id_secretaire", "id_membre">>

\* the first role (in the order of the loop) whose holder is given and absent
MissingRoleHolder(holders) ==
  \E i \in 1..3 : holders[i] # NoId /\ holders[i] \notin agent

createJury(juryData) ==
  LET op == "createJury"
      code == IF juryData.code # <<>> THEN juryData.code
              ELSE generateJuryCode(juryData.id_section)
      row == [juryData EXCEPT !.code = code]
  IN
  /\ juryAutoInc <= MaxJuryId
  /\ UNCHANGED <<refTables, parcoursTables, pc, niveau_jury, njAutoInc, coteTables>>
  /\ IF juryData.id_section = NoId THEN
       /\ response' = errorResponse(op, "Section ID is required", 400)
       /\ UNCHANGED <<jury, juryAutoInc>>
     ELSE IF juryData.designation = "" THEN
       /\ response' = errorResponse(op, "Designation is required", 400)
       /\ UNCHANGED <<jury, juryAutoInc>>
     ELSE IF juryData.id_section \notin DOMAIN section THEN
       /\ response' = errorResponse(op, "Section not found", 404)
       /\ UNCHANGED <<jury, juryAutoInc>>
     ELSE IF juryData.code # <<>> /\ \E j \in JuryIds : jury[j].code = juryData.code THEN
       /\ response' = errorResponse(op, "A jury with this code already exists", 409)
       /\ UNCHANGED <<jury, juryAutoInc>>
     ELSE IF \E j \in JuryIds : /\ jury[j].designation = juryData.designation
                                /\ jury[j].id_section = juryData.id_section THEN
       /\ response' = errorResponse(op, "A jury with this designation already exists for this section", 409)
       /\ UNCHANGED <<jury, juryAutoInc>>
     ELSE IF MissingRoleHolder(<<juryData.id_president, juryData.id_secretaire,
                                 juryData.id_membre>>) THEN
       /\ response' = errorResponse(op, "Agent for role not found", 404)
       /\ UNCHANGED <<jury, juryAutoInc>>
     ELSE
       /\ jury' = jury @@ (juryAutoInc :> row)
       /\ juryAutoInc' = juryAutoInc + 1
       /\ response' = queryOk(op)

\* the falsy value of a jury column: no code, empty text, null id
Falsy(f) ==
  CASE f = "code" -> <<>>
    [] f \in {"designation", "autorisation"} -> ""
    [] OTHER -> NoId

\* juryData[f] is present and truthy
Given(juryData, f) == f \in DOMAIN juryData /\ juryData[f] # Falsy(f)

updateJury(id, juryData) ==
  LET op == "updateJury"
      designation == IF Given(juryData, "designation") THEN juryData["designation"]
                     ELSE jury[id].designation
      sectionId == IF Given(juryData, "id_section") THEN juryData["id_section"]
                   ELSE jury[id].id_section
  IN
  /\ UNCHANGED <<refTables, parcoursTables, pc, juryAutoInc, niveau_jury, njAutoInc, coteTables>>
  /\ IF ~getJuryById(id) THEN
       /\ response' = errorResponse(op, "Jury not found", 404)
       /\ UNCHANGED jury
     ELSE IF DOMAIN juryData = {} THEN
       /\ response' = errorResponse(op, "No data provided for update", 400)
       /\ UNCHANGED jury
     ELSE IF Given(juryData, "id_section") /\ juryData["id_section"] \notin DOMAIN section THEN
       /\ response' = errorResponse(op, "Section not found", 404)
       /\ UNCHANGED jury
     ELSE IF /\ Given(juryData, "code")
             /\ \E j \in JuryIds \ {id} : jury[j].code = juryData["code"] THEN
       /\ response' = errorResponse(op, "A jury with this code already exists", 409)
       /\ UNCHANGED jury
     ELSE IF /\ Given(juryData, "designation") \/ Given(juryData, "id_section")
             /\ \E j \in JuryIds \ {id} : /\ jury[j].designation = designation
                                          /\ jury[j].id_section = sectionId THEN
       /\ response' = errorResponse(op, "A jury with this designation already exists for this section", 409)
       /\ UNCHANGED jury
     ELSE IF \E i \in 1..3 : /\ Given(juryData, RoleFields[i])
                             /\ juryData[RoleFields[i]] \notin agent THEN
       /\ response' = errorResponse(op, "Agent for role not found", 404)
       /\ UNCHANGED jury
     ELSE
       /\ jury' = [jury EXCEPT ![id] =
                     [f \in DOMAIN jury[id] |->
                        IF f \in DOMAIN juryData THEN juryData[f] ELSE jury[id][f]]]
       /\ response' = queryOk(op)

deleteJury(id) ==
  LET op == "deleteJury" IN
  /\ UNCHANGED <<refTables, parcoursTables, pc, juryAutoInc, niveau_jury, njAutoInc, coteTables>>
  /\ IF ~getJuryById(id) THEN
       /\ response' = errorResponse(op, "Jury not found", 404)
       /\ UNCHANGED jury
     ELSE IF \E nj \in DOMAIN niveau_jury : niveau_jury[nj].id_jury = id THEN
       /\ response' = errorResponse(op, "Cannot delete jury that is assigned to levels", 400)
       /\ UNCHANGED jury
     ELSE
       /\ jury' = Without(jury, id)
       /\ response' = queryOk(op)

assignJuryToNiveau(niveauId, juryId, anneeId) ==
  LET op == "assignJuryToNiveau" IN
  /\ njAutoInc <= MaxNiveauJuryId
  /\ UNCHANGED <<refTables, parcoursTables, pc, jury, juryAutoInc, coteTables>>
  /\ IF niveauId \notin Niveaux THEN
       /\ response' = errorResponse(op, "Niveau not found", 404)
       /\ UNCHANGED <<niveau_jury, njAutoInc>>
     ELSE IF ~getJuryById(juryId) THEN
       /\ response' = errorResponse(op, "Jury not found", 404)
       /\ UNCHANGED <<niveau_jury, njAutoInc>>
     ELSE IF anneeId \notin Annees THEN
       /\ response' = errorResponse(op, "Annee academique not found", 404)
       /\ UNCHANGED <<niveau_jury, njAutoInc>>
     ELSE IF \E nj \in DOMAIN niveau_jury :
               niveau_jury[nj] = [id_niveau |-> niveauId, id_jury |-> juryId,
                                  id_annee |-> anneeId] THEN
       /\ response' = errorResponse(op, "This jury is already assigned to this level for this academic year", 409)
       /\ UNCHANGED <<niveau_jury, njAutoInc>>
     ELSE
       /\ niveau_jury' = niveau_jury @@
            (njAutoInc :> [id_niveau |-> niveauId, id_jury |-> juryId,
                           id_annee |-> anneeId])
       /\ njAutoInc' = njAutoInc + 1
       /\ response' = queryOk(op)

(* ------------------------- hierarchy resolution ------------------------ *)
\* SELECT m.*, u.id_promotion FROM matiere m JOIN unite u ON m.id_unite = u.id
\* WHERE m.id = ?  -- the rows found
MatiereFound(matiereId) ==
  matiereId \in DOMAIN matiere /\ matiere[matiereId].id_unite \in DOMAIN unite

PromotionOfMatiere(matiereId) == unite[matiere[matiereId].id_unite].id_promotion

\* SELECT id_niveau FROM promotion WHERE id = ?
PromotionFound(promotionId) == promotionId \in DOMAIN promotion

(* ------------------------- authorization lookup ------------------------ *)
\* HoldsRole looking at the president slot only
HoldsRolePresident(j, agentId) == jury[j].id_president = agentId

\* WHERE (j.id_president = ? OR j.id_secretaire = ? OR j.id_membre = ?)
HoldsRole(j, agentId) ==
  \/ jury[j].id_president = agentId
  \/ jury[j].id_secretaire = agentId
  \/ jury[j].id_membre = agentId

\* AssignedTo without the id_niveau condition of the WHERE clause
AssignedToAnyNiveau(j, niveauId, anneeId) ==
  \E nj \in DOMAIN niveau_jury :
    /\ niveau_jury[nj].id_jury = j
    /\ niveau_jury[nj].id_annee = anneeId

\* FROM jury j JOIN niveau_jury nj ON j.id = nj.id_jury
\* WHERE nj.id_niveau = ? AND nj.id_annee = ?
AssignedTo(j, niveauId, anneeId) ==
  \E nj \in DOMAIN niveau_jury :
    /\ niveau_jury[nj].id_jury = j
    /\ niveau_jury[nj].id_niveau = niveauId
    /\ niveau_jury[nj].id_annee = anneeId

\* the jurys of the rows the juryCheck query returns
JuryCheck(niveauId, anneeId, agentId) ==
  {j \in JuryIds : AssignedTo(j, niveauId, anneeId) /\ HoldsRole(j, agentId)}

\* RoleOf answering 'president' for every row
RoleOfPresident(j, agentId) == "president"

\* CASE WHEN j.id_president = ? THEN 'president' WHEN j.id_secretaire = ? ...
RoleOf(j, agentId) ==
  IF jury[j].id_president = agentId THEN "president"
  ELSE IF jury[j].id_secretaire = agentId THEN "secretaire"
  ELSE IF jury[j].id_membre = agentId THEN "membre"
  ELSE "NULL"

\* const autorisations = { tp: true, td: true, examen: true, rattrapage: ... }
Autorisations(j) ==
  [c \in validCotes |-> IF c = "rattrapage" THEN jury[j].autorisation # "restreinte"
                        ELSE TRUE]

(* ------------------------------ audit log ------------------------------ *)
\* the row logInsertion inserts
InsertionRow(ficheId, agentId, cote, lastVal, description, date) ==
  [id_fiche_cotation |-> ficheId, id_agent |-> agentId, cote |-> cote,
   last_val |-> lastVal, description |-> description, date_insert |-> date]

\* InsertInto as a REPLACE of the latest row
InsertIntoReplace(rows, row) ==
  IF rows = <<>> THEN <<row>> ELSE [rows EXCEPT ![Len(rows)] = row]

\* INSERT INTO insertion (...)
InsertInto(rows, row) == Append(rows, row)

\* a description string: free text, or the template filled by modifierCote
Texte(t) == [text |-> t, cote |-> "", de |-> 0, a |-> 0]

\* description || `Modification de la cote ${cote}`
LogDescription(description, cote) ==
  IF description.text # "" THEN description
  ELSE [text |-> "Modification de la cote", cote |-> cote, de |-> 0, a |-> 0]

\* logInsertion against the fiche table fiches; fault names the query of
\* logInsertion that the driver fails ("none" when all run). The result is
\* the envelope returned and the insertion table afterwards.
LogInsertion(op, fiches, ficheId, agentId, cote, lastVal, description, date, fault) ==
  IF fault # "log_fiche" /\ ficheId \notin DOMAIN fiches THEN
    [response |-> errorResponse(op, "Fiche de cotation not found", 404), insertion |-> insertion]
  ELSE IF fault # "log_agent" /\ agentId \notin agent THEN
    [response |-> errorResponse(op, "Agent not found", 404), insertion |-> insertion]
  ELSE IF cote \notin validCotes THEN
    [response |-> errorResponse(op, "Invalid cote type", 400), insertion |-> insertion]
  ELSE IF fault = "log_insert" THEN
    [response |-> queryFault(op), insertion |-> insertion]
  ELSE
    [response |-> queryOk(op),
     insertion |-> InsertInto(insertion,
        InsertionRow(ficheId, agentId, cote, lastVal,
                     LogDescription(description, cote), date))]

logInsertion(ficheId, agentId, cote, lastVal, description, date, fault) ==
  LET r == LogInsertion("logInsertion", fiche_cotation, ficheId, agentId, cote,
                        lastVal, description, date, fault)
  IN
  /\ Len(insertion) < MaxInsertions
  /\ response' = r.response
  /\ insertion' = r.insertion
  /\ UNCHANGED <<refTables, parcoursTables, pc, juryTables, fiche_cotation, ficheAutoInc>>

(* ----------------------------- grade ledger ---------------------------- *)
\* HorsPlage without the lower bound
HorsPlageHaut(nouvelleValeur) == nouvelleValeur > 20

\* if (nouvelleValeur < 0 || nouvelleValeur > 20)
HorsPlage(nouvelleValeur) == nouvelleValeur < 0 \/ nouvelleValeur > 20

\* ancienneValeur || 0
OrZero(v) == IF v = NoValue THEN 0 ELSE v

\* AncienneValeur with the "|| 0" of the description applied to the logged value
AncienneValeurOrZero(fiche, cote) == OrZero(fiche[cote])

\* const ancienneValeur = fiche[cote]
AncienneValeur(fiche, cote) == fiche[cote]

\* description || `Modification de la cote ${cote} de ${ancienneValeur || 0} à ${nouvelleValeur}`
ModifDescription(description, cote, ancienneValeur, nouvelleValeur) ==
  IF description.text # "" THEN description
  ELSE [text |-> "Modification de la cote", cote |-> cote,
        de |-> OrZero(ancienneValeur), a |-> nouvelleValeur]

\* UPDATE fiche_cotation SET ${cote} = ? WHERE id = ?
UpdateCote(fiches, ficheId, cote, nouvelleValeur) ==
  [fiches EXCEPT ![ficheId][cote] = nouvelleValeur]

\* RattrapageInterdit comparing with a misspelt scope
RattrapageInterditTypo(j, cote) ==
  jury[j].autorisation = "restreint" /\ cote = "rattrapage"

\* jury.autorisation === 'restreinte' && cote === 'rattrapage'
RattrapageInterdit(j, cote) ==
  jury[j].autorisation = "restreinte" /\ cote = "rattrapage"

\* the names of the queries of modifierCote, in the order they run
\* ("log_*" are the queries of the logInsertion call it ends with)
Faults == {"fiche", "agent", "matiere", "promotion", "jury", "update",
           "log_fiche", "log_agent", "log_insert"}

\* JuryRows looking at level 1 whatever the promotion's id_niveau
JuryRowsNiveauUn(ficheId, agentId) ==
  IF /\ ficheId \in DOMAIN fiche_cotation
     /\ MatiereFound(fiche_cotation[ficheId].id_matiere)
     /\ PromotionFound(PromotionOfMatiere(fiche_cotation[ficheId].id_matiere))
  THEN JuryCheck(1, fiche_cotation[ficheId].id_annee, agentId)
  ELSE {}

\* the jurys of the rows juryCheck returns for the fiche and the agent
\* ({} when the call ends before that query)
JuryRows(ficheId, agentId) ==
  IF /\ ficheId \in DOMAIN fiche_cotation
     /\ MatiereFound(fiche_cotation[ficheId].id_matiere)
     /\ PromotionFound(PromotionOfMatiere(fiche_cotation[ficheId].id_matiere))
  THEN JuryCheck(promotion[PromotionOfMatiere(fiche_cotation[ficheId].id_matiere)].id_niveau,
                 fiche_cotation[ficheId].id_annee, agentId)
  ELSE {}

\* juryCheck.data[0]: the query has no ORDER BY, so any of its rows can be
\* the first one (NoId when there is none)
FirstRows(ficheId, agentId) ==
  IF JuryRows(ficheId, agentId) = {} THEN {NoId} ELSE JuryRows(ficheId, agentId)

\* what a call leaves: the envelope returned and the two tables it can write
Outcome(resp, fiches, rows) ==
  [response |-> resp, fiche_cotation |-> fiches, insertion |-> rows]

\* modifierCote. fault names the one query the driver fails ("none": all
\* run); j is the jury of the first row of juryCheck.
ModifierCoteResult(ficheId, agentId, cote, nouvelleValeur, description, date, fault, j) ==
  LET op == "modifierCote"
      fiche == fiche_cotation[ficheId]
      promotionId == PromotionOfMatiere(fiche.id_matiere)
      Fails(resp) == Outcome(resp, fiche_cotation, insertion)
  IN
  IF fault = "fiche" THEN Fails(thrownError(op))
  ELSE IF ficheId \notin DOMAIN fiche_cotation THEN
    Fails(errorResponse(op, "Fiche de cotation not found", 404))
  ELSE IF fault # "agent" /\ agentId \notin agent THEN
    Fails(errorResponse(op, "Agent not found", 404))
  ELSE IF cote \notin validCotes THEN
    Fails(errorResponse(op, "Invalid cote type", 400))
  ELSE IF HorsPlage(nouvelleValeur) THEN
    Fails(errorResponse(op, "La cote doit etre comprise entre 0 et 20", 400))
  ELSE IF fault = "matiere" THEN Fails(thrownError(op))
  ELSE IF ~MatiereFound(fiche.id_matiere) THEN
    Fails(errorResponse(op, "Matiere not found", 404))
  ELSE IF fault = "promotion" THEN Fails(thrownError(op))
  ELSE IF ~PromotionFound(promotionId) THEN
    Fails(errorResponse(op, "Promotion not found", 404))
  ELSE IF fault = "jury" THEN Fails(thrownError(op))
  ELSE IF JuryRows(ficheId, agentId) = {} THEN
    Fails(errorResponse(op, "Agent is not authorized to modify this grade", 403))
  ELSE IF RattrapageInterdit(j, cote) THEN
    Fails(errorResponse(op, "Ce jury n'est pas autorise a modifier les rattrapages", 403))
  ELSE IF fault = "update" THEN Fails(queryFault(op))
  ELSE
    LET ancienneValeur == AncienneValeur(fiche, cote)
        fiches == UpdateCote(fiche_cotation, ficheId, cote, nouvelleValeur)
        log == LogInsertion(op, fiches, ficheId, agentId, cote, ancienneValeur,
                 ModifDescription(description, cote, ancienneValeur, nouvelleValeur),
                 date, fault)
    IN Outcome(log.response, fiches, log.insertion)

modifierCote(ficheId, agentId, cote, nouvelleValeur, description, date, fault) ==
  /\ Len(insertion) < MaxInsertions
  /\ \E j \in FirstRows(ficheId, agentId) :
       LET r == ModifierCoteResult(ficheId, agentId, cote, nouvelleValeur,
                                   description, date, fault, j)
       IN /\ response' = r.response
          /\ fiche_cotation' = r.fiche_cotation
          /\ insertion' = r.insertion
  /\ UNCHANGED <<refTables, parcoursTables, pc, juryTables, ficheAutoInc>>

\* verifierAutorisation. fault names the one query the driver fails; j is
\* the jury of the first row of juryCheck.
VerifierAutorisationResult(agentId, ficheId, fault, j) ==
  LET op == "verifierAutorisation"
      fiche == fiche_cotation[ficheId]
      promotionId == PromotionOfMatiere(fiche.id_matiere)
  IN
  IF fault = "fiche" THEN thrownError(op)
  ELSE IF ficheId \notin DOMAIN fiche_cotation THEN
    errorResponse(op, "Fiche de cotation not found", 404)
  ELSE IF fault # "agent" /\ agentId \notin agent THEN
    errorResponse(op, "Agent not found", 404)
  ELSE IF fault = "matiere" THEN thrownError(op)
  ELSE IF ~MatiereFound(fiche.id_matiere) THEN
    errorResponse(op, "Matiere not found", 404)
  ELSE IF fault = "promotion" THEN thrownError(op)
  ELSE IF ~PromotionFound(promotionId) THEN
    errorResponse(op, "Promotion not found", 404)
  ELSE IF fault = "jury" THEN thrownError(op)
  ELSE IF JuryRows(ficheId, agentId) = {} THEN
    errorResponse(op, "Agent is not authorized to modify this grade", 403)
  ELSE
    [op |-> op, success |-> TRUE, error |-> "", code |-> 0, thrown |-> FALSE,
     data |-> [agent_id |-> agentId, fiche_id |-> ficheId, jury_id |-> j,
               role |-> RoleOf(j, agentId), autorisations |-> Autorisations(j)]]

verifierAutorisation(agentId, ficheId, fault) ==
  /\ \E j \in FirstRows(ficheId, agentId) :
       response' = VerifierAutorisationResult(agentId, ficheId, fault, j)
  /\ UNCHANGED <<refTables, parcoursTables, pc, juryTables, coteTables>>

\* cotationData.x !== undefined ? parseFloat(cotationData.x) : dflt
NoteOr(cotationData, c, dflt) ==
  IF c \in DOMAIN cotationData THEN cotationData[c] ELSE dflt

\* SELECT id FROM fiche_cotation WHERE id_etudiant = ? AND id_matiere = ? AND id_annee = ?
FichesOf(etudiantId, matiereId, anneeId) ==
  {f \in DOMAIN fiche_cotation :
     /\ fiche_cotation[f].id_etudiant = etudiantId
     /\ fiche_cotation[f].id_matiere = matiereId
     /\ fiche_cotation[f].id_annee = anneeId}

\* NotesHorsPlage without the upper bound
NotesHorsPlageBas(notes) == \E note \in notes : note < 0

\* for (const note of notes) if (note < 0 || note > 20)
NotesHorsPlage(notes) == \E note \in notes : note < 0 \/ note > 20

setFicheCotation(etudiantId, matiereId, anneeId, cotationData) ==
  LET op == "setFicheCotation"
      tp == NoteOr(cotationData, "tp", 0)
      td == NoteOr(cotationData, "td", 0)
      examen == NoteOr(cotationData, "examen", 0)
      rattrapage == NoteOr(cotationData, "rattrapage", NoValue)
      notes == {tp, td, examen} \cup (IF rattrapage # NoValue THEN {rattrapage} ELSE {})
      unchanged == UNCHANGED <<fiche_cotation, ficheAutoInc>>
  IN
  /\ UNCHANGED <<refTables, parcoursTables, pc, juryTables, insertion>>
  /\ IF etudiantId \notin Etudiants THEN
       response' = errorResponse(op, "Etudiant not found", 404) /\ unchanged
     ELSE IF matiereId \notin DOMAIN matiere THEN
       response' = errorResponse(op, "Matiere non trouvee", 404) /\ unchanged
     ELSE IF anneeId \notin Annees THEN
       response' = errorResponse(op, "Annee academique non trouvee", 404) /\ unchanged
     ELSE IF NotesHorsPlage(notes) THEN
       response' = errorResponse(op, "Les notes doivent etre comprises entre 0 et 20", 400) /\ unchanged
     ELSE IF FichesOf(etudiantId, matiereId, anneeId) # {} THEN
       \E ficheId \in FichesOf(etudiantId, matiereId, anneeId) :
         /\ fiche_cotation' = [fiche_cotation EXCEPT ![ficheId] =
              [@ EXCEPT !.tp = tp, !.td = td, !.examen = examen,
                        !.rattrapage = rattrapage]]
         /\ ficheAutoInc' = ficheAutoInc
         /\ response' = queryOk(op)
     ELSE
       /\ fiche_cotation' = fiche_cotation @@
            (ficheAutoInc :> [id_etudiant |-> etudiantId, id_matiere |-> matiereId,
                              id_annee |-> anneeId, tp |-> tp, td |-> td,
                              examen |-> examen, rattrapage |-> rattrapage])
       /\ ficheAutoInc' = ficheAutoInc + 1
       /\ response' = queryOk(op)

(* ---------------------- level-jury assignments ------------------------ *)
\* getNiveauJuryById: the row joined with niveau, jury, section and annee
getNiveauJuryById(id) ==
  /\ id \in DOMAIN niveau_jury
  /\ niveau_jury[id].id_niveau \in Niveaux
  /\ getJuryById(niveau_jury[id].id_jury)
  /\ niveau_jury[id].id_annee \in Annees

\* the role holders of jury j that are set
AgentIdsOf(j) ==
  {jury[j].id_president, jury[j].id_secretaire, jury[j].id_membre} \ {NoId}

\* SELECT id FROM promotion WHERE id_niveau = ?
PromotionsOfNiveau(niveauId) ==
  {p \in DOMAIN promotion : promotion[p].id_niveau = niveauId}

\* SELECT pe.id_adminEtudiant FROM promotion_etudiant pe
\* WHERE pe.id_promotion IN (...) AND pe.id_annee_acad = ?
AdminIdsOf(promotionIds, anneeId) ==
  {promotion_etudiant[pe].id_adminEtudiant :
     pe \in {x \in DOMAIN promotion_etudiant :
               /\ promotion_etudiant[x].id_promotion \in promotionIds
               /\ promotion_etudiant[x].id_annee_acad = anneeId}}

\* SELECT id_etudiant FROM administratif_etudiant WHERE id IN (...)
EtudiantIdsOf(adminIds) ==
  {administratif_etudiant[a].id_etudiant :
     a \in adminIds \cap DOMAIN administratif_etudiant}

\* SELECT id FROM fiche_cotation WHERE id_etudiant IN (...) AND id_annee = ?
FichesOfEtudiants(etudiantIds, anneeId) ==
  {f \in DOMAIN fiche_cotation :
     /\ fiche_cotation[f].id_etudiant \in etudiantIds
     /\ fiche_cotation[f].id_annee = anneeId}

\* SELECT i.* FROM insertion i JOIN fiche_cotation fc JOIN agent a
\* JOIN etudiant e JOIN matiere m
\* WHERE i.id_fiche_cotation IN (...) AND i.id_agent IN (...)
InsertionsOf(ficheIds, agentIds) ==
  {i \in 1..Len(insertion) :
     /\ insertion[i].id_fiche_cotation \in ficheIds
     /\ insertion[i].id_agent \in agentIds
     /\ insertion[i].id_agent \in agent
     /\ fiche_cotation[insertion[i].id_fiche_cotation].id_etudiant \in Etudiants
     /\ fiche_cotation[insertion[i].id_fiche_cotation].id_matiere \in DOMAIN matiere}

\* the envelope of a lookup that returned rows (the ids of the rows)
Found(rows) == [success |-> TRUE, error |-> "", code |-> 0, data |-> rows]

NotFound(message) == [success |-> FALSE, error |-> message, code |-> 404, data |-> {}]

getInsertionsByNiveauJury(niveauJuryId) ==
  IF ~getNiveauJuryById(niveauJuryId) THEN
    NotFound("Niveau-jury association not found")
  ELSE
    LET niveauJury == niveau_jury[niveauJuryId]
        agentIds == AgentIdsOf(niveauJury.id_jury)
        promotionIds == PromotionsOfNiveau(niveauJury.id_niveau)
        adminIds == AdminIdsOf(promotionIds, niveauJury.id_annee)
        etudiantIds == EtudiantIdsOf(adminIds)
        ficheIds == FichesOfEtudiants(etudiantIds, niveauJury.id_annee)
    IN
    IF agentIds = {} THEN NotFound("No agents associated with this jury")
    ELSE IF promotionIds = {} THEN NotFound("No promotions found for this niveau")
    ELSE IF adminIds = {} THEN
      NotFound("No students found for these promotions in this academic year")
    ELSE IF etudiantIds = {} THEN NotFound("No student IDs found")
    ELSE IF ficheIds = {} THEN
      NotFound("No grade sheets found for these students in this academic year")
    ELSE Found(InsertionsOf(ficheIds, agentIds))

removeJuryFromNiveau(niveauJuryId) ==
  LET op == "removeJuryFromNiveau"
      cotesResult == getInsertionsByNiveauJury(niveauJuryId)
  IN
  /\ UNCHANGED <<refTables, parcoursTables, pc, jury, juryAutoInc, njAutoInc, coteTables>>
  /\ IF ~getNiveauJuryById(niveauJuryId) THEN
       /\ response' = errorResponse(op, "Niveau-jury association not found", 404)
       /\ UNCHANGED niveau_jury
     ELSE IF cotesResult.success /\ cotesResult.data # {} THEN
       /\ response' = errorResponse(op, "Cannot remove jury from niveau because grades have been recorded", 400)
       /\ UNCHANGED niveau_jury
     ELSE
       /\ niveau_jury' = Without(niveau_jury, niveauJuryId)
       /\ response' = queryOk(op)

(* ------------------------------ enrolment ------------------------------ *)
\* getAdministratifEtudiant: SELECT * FROM administratif_etudiant WHERE id_etudiant = ?
getAdministratifEtudiant(etudiantId) ==
  {a \in DOMAIN administratif_etudiant :
     administratif_etudiant[a].id_etudiant = etudiantId}

ajouterParcours(etudiantId, promotionId, anneeId) ==
  LET op == "ajouterParcours"
      unchanged == UNCHANGED <<promotion_etudiant, peAutoInc>>
  IN
  /\ peAutoInc <= MaxParcoursId
  /\ UNCHANGED <<refTables, pc, juryTables, coteTables>>
  /\ IF etudiantId \notin Etudiants THEN
       response' = errorResponse(op, "Etudiant not found", 404) /\ unchanged
     ELSE IF getAdministratifEtudiant(etudiantId) = {} THEN
       response' = errorResponse(op, "L'etudiant doit avoir des informations administratives avant d'ajouter un parcours", 400) /\ unchanged
     ELSE IF promotionId \notin DOMAIN promotion THEN
       response' = errorResponse(op, "Promotion non trouvee", 404) /\ unchanged
     ELSE IF anneeId \notin Annees THEN
       response' = errorResponse(op, "Annee academique non trouvee", 404) /\ unchanged
     ELSE
       \E adminId \in getAdministratifEtudiant(etudiantId) :
         LET row == [id_adminEtudiant |-> adminId, id_promotion |-> promotionId,
                     id_annee_acad |-> anneeId]
         IN
         IF \E pe \in DOMAIN promotion_etudiant : promotion_etudiant[pe] = row THEN
           response' = errorResponse(op, "L'etudiant est deja inscrit dans cette promotion pour cette annee academique", 409) /\ unchanged
         ELSE
           /\ promotion_etudiant' = promotion_etudiant @@ (peAutoInc :> row)
           /\ peAutoInc' = peAutoInc + 1
           /\ response' = queryOk(op)

(* ------------------------ grading specification ----------------------- *)
Agents == {1, 2}
AgentIds == Agents \cup {3}          \* 3: no such agent
FicheIds == {1, 2}                   \* 2: no such fiche
Dates == 0..MaxDate
Valeurs == {-1, 0, 20, 21}
Cotes == validCotes \cup {"moyenne"}

NewJury(sectionId, designation, code, president, secretaire, membre, autorisation) ==
  [id_section |-> sectionId, designation |-> designation, code |-> code,
   id_president |-> president, id_secretaire |-> secretaire,
   id_membre |-> membre, autorisation |-> autorisation]

JuryDataCotes ==
  {NewJury(1, "Jury ordinaire", <<>>, 1, NoId, NoId, "normale"),
   NewJury(1, "Jury restreint", <<>>, NoId, 1, NoId, "restreinte")}

CotationData == {<<>>, [tp |-> 20], [examen |-> 21]}

Call(ficheId, agentId, cote, nouvelleValeur, description, date, fault) ==
  [ficheId |-> ficheId, agentId |-> agentId, cote |-> cote,
   nouvelleValeur |-> nouvelleValeur, description |-> description,
   date |-> date, fault |-> fault]

\* the calls of modifierCote that drive the exploration
ModifierCoteCalls ==
  {Call(1, 1, cv[1], cv[2], Texte(""), 0, "none") :
     cv \in {<<"tp", 20>>, <<"examen", 20>>, <<"rattrapage", 20>>,
             <<"td", 21>>, <<"tp", -1>>, <<"moyenne", 20>>}}
  \cup {Call(1, 1, "tp", 20, Texte("motif"), MaxDate, "none"),
        Call(1, 2, "tp", 20, Texte(""), 0, "none"),
        Call(2, 1, "tp", 20, Texte(""), 0, "none"),
        Call(1, 3, "tp", 20, Texte(""), 0, "none"),
        Call(1, 3, "tp", 20, Texte(""), 0, "agent")}
  \cup {Call(1, 1, "tp", 20, Texte(""), 0, fault) : fault \in Faults}

\* the calls of verifierAutorisation that drive the exploration
VerifierAutorisationCalls ==
  {<<a, 1, "none">> : a \in AgentIds}
  \cup {<<1, 2, "none">>, <<1, 1, "fiche">>, <<1, 1, "jury">>}

CreerJury == \E juryData \in JuryDataCotes : createJury(juryData)

AssignerJury ==
  \E niveauId \in Niveaux, juryId \in 1..MaxJuryId, anneeId \in Annees :
    assignJuryToNiveau(niveauId, juryId, anneeId)

SetFiche ==
  \E cotationData \in CotationData : setFicheCotation(1, 1, 1, cotationData)

ModifierCote ==
  \E c \in ModifierCoteCalls :
    modifierCote(c.ficheId, c.agentId, c.cote, c.nouvelleValeur, c.description,
                 c.date, c.fault)

VerifierAutorisation ==
  \E c \in VerifierAutorisationCalls : verifierAutorisation(c[1], c[2], c[3])

Next ==
  \/ CreerJury
  \/ AssignerJury
  \/ SetFiche
  \/ ModifierCote
  \/ VerifierAutorisation

Spec == Init /\ [][Next]_vars

(* ----------------------- jury registry behaviour ----------------------- *)
GM001 == <<"G", "M", "-", "0", "0", "1">>
GM002 == <<"G", "M", "-", "0", "0", "2">>

\* the bodies of createJury: with and without a code, in both sections, and
\* the refused ones (no section, no designation, unknown section, unknown
\* role holder)
JuryDataRegistre ==
  {NewJury(s, d, c, NoId, NoId, NoId, "normale") :
     s \in DOMAIN section, d \in {"Jury A", "Jury B"}, c \in {<<>>, GM001, GM002}}
  \cup {NewJury(NoId, "Jury A", <<>>, NoId, NoId, NoId, "normale"),
        NewJury(1, "", <<>>, NoId, NoId, NoId, "normale"),
        NewJury(3, "Jury A", <<>>, NoId, NoId, NoId, "normale"),
        NewJury(1, "Jury C", <<>>, NoId, 3, NoId, "normale")}

\* the bodies of updateJury
JuryDataUpdate ==
  {<<>>, [code |-> GM002], [designation |-> "Jury B"], [designation |-> ""],
   [id_section |-> 2], [id_section |-> 3], [id_membre |-> 3], [id_membre |-> 2]}

CreerJuryRegistre == \E juryData \in JuryDataRegistre : createJury(juryData)

ModifierJury ==
  \E id \in 1..MaxJuryId, juryData \in JuryDataUpdate : updateJury(id, juryData)

SupprimerJury == \E id \in 1..MaxJuryId : deleteJury(id)

NextJury ==
  \/ CreerJuryRegistre
  \/ ModifierJury
  \/ SupprimerJury
  \/ AssignerJury

SpecJury == Init /\ [][NextJury]_vars

(* ---------------------- assignment life cycle ------------------------- *)
JuryDataAffectation == {NewJury(1, "Jury ordinaire", <<>>, 1, NoId, NoId, "normale")}

\* updateJury bodies that take an agent out of a role or put one in
JuryDataRoles == {[id_president |-> NoId], [id_president |-> 1], [id_membre |-> 2]}

CreerJuryAffectation == \E juryData \in JuryDataAffectation : createJury(juryData)

ModifierRoles ==
  \E id \in 1..MaxJuryId, juryData \in JuryDataRoles : updateJury(id, juryData)

RetirerJury == \E id \in 1..MaxNiveauJuryId : removeJuryFromNiveau(id)

Inscrire == \E promotionId \in {1, 2} : ajouterParcours(1, promotionId, 1)

ModifierCoteAffectation ==
  \E agentId \in Agents, cote \in {"tp", "rattrapage"} :
    modifierCote(1, agentId, cote, 20, Texte(""), 0, "none")

VerifierAffectation ==
  \E agentId \in Agents : verifierAutorisation(agentId, 1, "none")

NextAffectation ==
  \/ CreerJuryAffectation
  \/ ModifierRoles
  \/ AssignerJury
  \/ RetirerJury
  \/ SupprimerJury
  \/ Inscrire
  \/ SetFiche
  \/ ModifierCoteAffectation
  \/ VerifierAffectation

SpecAffectation == Init /\ [][NextAffectation]_vars

(* -------------------- calls running query by query --------------------- *)
\* Each method awaits its queries one after the other; between two awaits
\* the queries of other requests run.  A step below is one await of one call.
At(p, label) == pc[p].at = label

Goto(p, label) == pc' = [pc EXCEPT ![p].at = label]

\* deleteJury(id), await 1: getJuryById
deleteJuryExists(p, id) ==
  /\ At(p, "idle")
  /\ IF getJuryById(id)
     THEN Goto(p, "refs") /\ UNCHANGED response
     ELSE Goto(p, "done") /\ response' = errorResponse("deleteJury", "Jury not found", 404)
  /\ UNCHANGED <<refTables, parcoursTables, juryTables, coteTables>>

\* deleteJury(id), await 2: SELECT id FROM niveau_jury WHERE id_jury = ? LIMIT 1
deleteJuryRefs(p, id) ==
  /\ At(p, "refs")
  /\ IF \E nj \in DOMAIN niveau_jury : niveau_jury[nj].id_jury = id
     THEN /\ Goto(p, "done")
          /\ response' = errorResponse("deleteJury", "Cannot delete jury that is assigned to levels", 400)
     ELSE Goto(p, "write") /\ UNCHANGED response
  /\ UNCHANGED <<refTables, parcoursTables, juryTables, coteTables>>

\* deleteJury(id), await 3: DELETE FROM jury WHERE id = ?
deleteJuryWrite(p, id) ==
  /\ At(p, "write")
  /\ jury' = Without(jury, id)
  /\ response' = queryOk("deleteJury")
  /\ Goto(p, "done")
  /\ UNCHANGED <<refTables, parcoursTables, juryAutoInc, niveau_jury, njAutoInc, coteTables>>

\* assignJuryToNiveau, await 1: SELECT id FROM niveau WHERE id = ?
assignNiveau(p, niveauId, juryId, anneeId) ==
  /\ At(p, "idle")
  /\ IF niveauId \in Niveaux
     THEN Goto(p, "jury") /\ UNCHANGED response
     ELSE Goto(p, "done") /\ response' = errorResponse("assignJuryToNiveau", "Niveau not found", 404)
  /\ UNCHANGED <<refTables, parcoursTables, juryTables, coteTables>>

\* assignJuryToNiveau, await 2: getJuryById
assignJury(p, niveauId, juryId, anneeId) ==
  /\ At(p, "jury")
  /\ IF getJuryById(juryId)
     THEN Goto(p, "annee") /\ UNCHANGED response
     ELSE Goto(p, "done") /\ response' = errorResponse("assignJuryToNiveau", "Jury not found", 404)
  /\ UNCHANGED <<refTables, parcoursTables, juryTables, coteTables>>

\* assignJuryToNiveau, await 3: SELECT id FROM annee WHERE id = ?
assignAnnee(p, niveauId, juryId, anneeId) ==
  /\ At(p, "annee")
  /\ IF anneeId \in Annees
     THEN Goto(p, "existing") /\ UNCHANGED response
     ELSE Goto(p, "done") /\ response' = errorResponse("assignJuryToNiveau", "Annee academique not found", 404)
  /\ UNCHANGED <<refTables, parcoursTables, juryTables, coteTables>>

\* assignJuryToNiveau, await 4: the triple already stored?
assignExisting(p, niveauId, juryId, anneeId) ==
  /\ At(p, "existing")
  /\ IF \E nj \in DOMAIN niveau_jury :
          niveau_jury[nj] = [id_niveau |-> niveauId, id_jury |-> juryId,
                             id_annee |-> anneeId]
     THEN /\ Goto(p, "done")
          /\ response' = errorResponse("assignJuryToNiveau", "This jury is already assigned to this level for this academic year", 409)
     ELSE Goto(p, "insert") /\ UNCHANGED response
  /\ UNCHANGED <<refTables, parcoursTables, juryTables, coteTables>>

\* assignJuryToNiveau, await 5: INSERT INTO niveau_jury
assignInsert(p, niveauId, juryId, anneeId) ==
  /\ At(p, "insert")
  /\ njAutoInc <= MaxNiveauJuryId
  /\ niveau_jury' = niveau_jury @@
       (njAutoInc :> [id_niveau |-> niveauId, id_jury |-> juryId, id_annee |-> anneeId])
  /\ njAutoInc' = njAutoInc + 1
  /\ response' = queryOk("assignJuryToNiveau")
  /\ Goto(p, "done")
  /\ UNCHANGED <<refTables, parcoursTables, jury, juryAutoInc, coteTables>>

(* --------------- deleteJury against assignJuryToNiveau ------------------ *)
\* one deleteJury(1) and two assignJuryToNiveau(1, 1, 1) in flight at once,
\* after createJury
DeleteJuryStep ==
  \/ deleteJuryExists("del", 1)
  \/ deleteJuryRefs("del", 1)
  \/ deleteJuryWrite("del", 1)

AssignStep ==
  \E p \in {"aff1", "aff2"} :
    \/ assignNiveau(p, 1, 1, 1)
    \/ assignJury(p, 1, 1, 1)
    \/ assignAnnee(p, 1, 1, 1)
    \/ assignExisting(p, 1, 1, 1)
    \/ assignInsert(p, 1, 1, 1)

NextRaceJury ==
  \/ CreerJuryAffectation
  \/ DeleteJuryStep
  \/ AssignStep

SpecRaceJury == Init /\ [][NextRaceJury]_vars

(* ------------- removeJuryFromNiveau against modifierCote --------------- *)
\* removeJuryFromNiveau(id), await 1: getNiveauJuryById
removeExists(p, niveauJuryId) ==
  /\ At(p, "idle")
  /\ IF getNiveauJuryById(niveauJuryId)
     THEN Goto(p, "cotes") /\ UNCHANGED response
     ELSE /\ Goto(p, "done")
          /\ response' = errorResponse("removeJuryFromNiveau", "Niveau-jury association not found", 404)
  /\ UNCHANGED <<refTables, parcoursTables, juryTables, coteTables>>

\* removeJuryFromNiveau(id), await 2: getInsertionsByNiveauJury, whose
\* queries only read
removeCotes(p, niveauJuryId) ==
  LET cotesResult == getInsertionsByNiveauJury(niveauJuryId) IN
  /\ At(p, "cotes")
  /\ IF cotesResult.success /\ cotesResult.data # {}
     THEN /\ Goto(p, "done")
          /\ response' = errorResponse("removeJuryFromNiveau", "Cannot remove jury from niveau because grades have been recorded", 400)
     ELSE Goto(p, "write") /\ UNCHANGED response
  /\ UNCHANGED <<refTables, parcoursTables, juryTables, coteTables>>

\* removeJuryFromNiveau(id), await 3: DELETE FROM niveau_jury WHERE id = ?
removeWrite(p, niveauJuryId) ==
  /\ At(p, "write")
  /\ niveau_jury' = Without(niveau_jury, niveauJuryId)
  /\ response' = queryOk("removeJuryFromNiveau")
  /\ Goto(p, "done")
  /\ UNCHANGED <<refTables, parcoursTables, jury, juryAutoInc, njAutoInc, coteTables>>

\* modifierCote, the awaits up to juryCheck: they only read.  The call ends
\* here with the envelope of the first check that fails; when all pass it
\* keeps ancienneValeur and the jury of juryCheck.data[0] for its writes.
modifierCoteChecks(p, ficheId, agentId, cote, nouvelleValeur) ==
  /\ At(p, "idle")
  /\ \E j \in FirstRows(ficheId, agentId) :
       LET r == ModifierCoteResult(ficheId, agentId, cote, nouvelleValeur,
                                   Texte(""), 0, "update", j)
       IN IF r.response = queryFault("modifierCote")
          THEN /\ pc' = [pc EXCEPT ![p] =
                       [at |-> "update", j |-> j,
                        lastVal |-> AncienneValeur(fiche_cotation[ficheId], cote)]]
               /\ UNCHANGED response
          ELSE Goto(p, "done") /\ response' = r.response
  /\ UNCHANGED <<refTables, parcoursTables, juryTables, coteTables>>

\* modifierCote, next await: UPDATE fiche_cotation SET ${cote} = ? WHERE id = ?
modifierCoteUpdate(p, ficheId, agentId, cote, nouvelleValeur) ==
  /\ At(p, "update")
  /\ fiche_cotation' = IF ficheId \in DOMAIN fiche_cotation
                       THEN UpdateCote(fiche_cotation, ficheId, cote, nouvelleValeur)
                       ELSE fiche_cotation
  /\ Goto(p, "log")
  /\ UNCHANGED <<refTables, parcoursTables, juryTables, ficheAutoInc, insertion, response>>

\* modifierCote, last awaits: logInsertion with the value read by the checks
modifierCoteLog(p, ficheId, agentId, cote, nouvelleValeur) ==
  LET log == LogInsertion("modifierCote", fiche_cotation, ficheId, agentId, cote,
               pc[p].lastVal,
               ModifDescription(Texte(""), cote, pc[p].lastVal, nouvelleValeur),
               0, "none")
  IN
  /\ At(p, "log")
  /\ Len(insertion) < MaxInsertions
  /\ insertion' = log.insertion
  /\ response' = log.response
  /\ Goto(p, "done")
  /\ UNCHANGED <<refTables, parcoursTables, juryTables, fiche_cotation, ficheAutoInc>>

\* one removeJuryFromNiveau(1) and two modifierCote(1, 1, "tp", v) in
\* flight at once, after the jury, its assignment, the sheet and the
\* enrolment were set up
RemoveStep ==
  \/ removeExists("ret", 1)
  \/ removeCotes("ret", 1)
  \/ removeWrite("ret", 1)

ModifierCoteStep ==
  \E c \in {<<"mod", 20>>, <<"mod2", 0>>} :
    \/ modifierCoteChecks(c[1], 1, 1, "tp", c[2])
    \/ modifierCoteUpdate(c[1], 1, 1, "tp", c[2])
    \/ modifierCoteLog(c[1], 1, 1, "tp", c[2])

NextRaceCote ==
  \/ CreerJuryAffectation
  \/ assignJuryToNiveau(1, 1, 1)
  \/ SetFiche
  \/ Inscrire
  \/ RemoveStep
  \/ ModifierCoteStep

SpecRaceCote == Init /\ [][NextRaceCote]_vars

(* --------------------------- grade reports ----------------------------- *)
\* SQL comparison against a column that may be NULL: NULL >= n and NULL < n
\* are not true
SqlGe(v, n) == v # NoValue /\ v >= n

SqlLt(v, n) == v # NoValue /\ v < n

\* (fc.tp + fc.td + fc.examen) as total: NULL when a term is NULL
Total(fiche) ==
  IF NoValue \in {fiche.tp, fiche.td, fiche.examen} THEN NoValue
  ELSE fiche.tp + fiche.td + fiche.examen

\* Resultat with a strict comparison of the total
ResultatStrict(fiche) ==
  IF Total(fiche) # NoValue /\ Total(fiche) > 10 THEN "Reussi"
  ELSE IF fiche.rattrapage # NoValue /\ SqlGe(fiche.rattrapage, 10) THEN "Reussi via rattrapage"
  ELSE IF fiche.rattrapage # NoValue /\ SqlLt(fiche.rattrapage, 10) THEN "Echoue apres rattrapage"
  ELSE "Echoue"

\* CASE WHEN ... END as resultat (the labels without their accents)
Resultat(fiche) ==
  IF SqlGe(Total(fiche), 10) THEN "Reussi"
  ELSE IF fiche.rattrapage # NoValue /\ SqlGe(fiche.rattrapage, 10) THEN "Reussi via rattrapage"
  ELSE IF fiche.rattrapage # NoValue /\ SqlLt(fiche.rattrapage, 10) THEN "Echoue apres rattrapage"
  ELSE "Echoue"

\* the rows of a report: the sheet's columns with total and resultat
ReportRows(ficheIds) ==
  [f \in ficheIds |->
     [tp |-> fiche_cotation[f].tp, td |-> fiche_cotation[f].td,
      examen |-> fiche_cotation[f].examen, rattrapage |-> fiche_cotation[f].rattrapage,
      total |-> Total(fiche_cotation[f]), resultat |-> Resultat(fiche_cotation[f])]]

\* Model.query on a SELECT: success with the rows
queryRows(op, rows) ==
  [op |-> op, success |-> TRUE, error |-> "", code |-> 0, thrown |-> FALSE,
   data |-> rows]

\* getFichesCotationByEtudiant(etudiantId, anneeId = null)
getFichesCotationByEtudiant(etudiantId, anneeId) ==
  LET op == "getFichesCotationByEtudiant"
      ficheIds == {f \in DOMAIN fiche_cotation :
                     /\ fiche_cotation[f].id_etudiant = etudiantId
                     /\ MatiereFound(fiche_cotation[f].id_matiere)
                     /\ fiche_cotation[f].id_annee \in Annees
                     /\ anneeId = NoId \/ fiche_cotation[f].id_annee = anneeId}
  IN
  /\ response' = IF etudiantId \notin Etudiants
                 THEN errorResponse(op, "Etudiant not found", 404)
                 ELSE queryRows(op, ReportRows(ficheIds))
  /\ UNCHANGED <<refTables, parcoursTables, pc, juryTables, coteTables>>

\* getFichesCotationByMatiere(matiereId, anneeId)
getFichesCotationByMatiere(matiereId, anneeId) ==
  LET op == "getFichesCotationByMatiere"
      ficheIds == {f \in DOMAIN fiche_cotation :
                     /\ fiche_cotation[f].id_etudiant \in Etudiants
                     /\ fiche_cotation[f].id_matiere = matiereId
                     /\ fiche_cotation[f].id_annee = anneeId}
  IN
  /\ response' = queryRows(op, ReportRows(ficheIds))
  /\ UNCHANGED <<refTables, parcoursTables, pc, juryTables, coteTables>>

\* component values a sheet can hold and retake values (NoValue: unset)
Notes == {0, 3, 4, 10, 20}

Rattrapages == {NoValue, 0, 9, 10, 20}

\* the state after setFicheCotation(1, 1, 1, {tp, td, examen, rattrapage})
\* stored one sheet, for each combination of the values above
InitResultat ==
  /\ agent = {1, 2}
  /\ section = (1 :> << <<"g", "e", "n", "i", "e">>, <<"M", "e", "c", "a">> >>) @@
               (2 :> << <<"d", "r", "o", "i", "t">> >>)
  /\ matiere = (1 :> [id_unite |-> 1])
  /\ unite = (1 :> [id_promotion |-> 1])
  /\ promotion = (1 :> [id_niveau |-> 1])
  /\ jury = <<>>
  /\ juryAutoInc = 1
  /\ niveau_jury = <<>>
  /\ njAutoInc = 1
  /\ \E tp \in Notes, td \in Notes, examen \in Notes, rattrapage \in Rattrapages :
       fiche_cotation = (1 :> [id_etudiant |-> 1, id_matiere |-> 1, id_annee |-> 1,
                               tp |-> tp, td |-> td, examen |-> examen,
                               rattrapage |-> rattrapage])
  /\ ficheAutoInc = 2
  /\ insertion = <<>>
  /\ response = queryOk("setFicheCotation")
  /\ administratif_etudiant = (1 :> [id_etudiant |-> 1])
  /\ promotion_etudiant = <<>>
  /\ peAutoInc = 1
  /\ pc = [p \in Procs |-> Idle]
  /\ annee = (1 :> [debut |-> 1, fin |-> 2])
  /\ anneeAutoInc = 2

FichesParEtudiant ==
  \E etudiantId \in {1, 2}, anneeId \in {NoId, 1} :
    getFichesCotationByEtudiant(etudiantId, anneeId)

FichesParMatiere ==
  \E matiereId \in {1, 2} : getFichesCotationByMatiere(matiereId, 1)

NextResultat ==
  \/ FichesParEtudiant
  \/ FichesParMatiere

SpecResultat == InitResultat /\ [][NextResultat]_vars

(* ------------------------ programme hierarchy -------------------------- *)
\* the tables a hierarchy operation leaves alone
autresTables ==
  <<agent, section, administratif_etudiant, annee, anneeAutoInc, parcoursTables, pc,
    juryTables, coteTables>>

\* getPromotionById: promotion JOIN niveau JOIN section (the sections of the
\* promotions are never deleted here)
getPromotionById(id) == id \in DOMAIN promotion /\ promotion[id].id_niveau \in Niveaux

\* getUniteById: unite JOIN promotion JOIN section JOIN niveau
getUniteById(id) == id \in DOMAIN unite /\ getPromotionById(unite[id].id_promotion)

\* getMatiereById: matiere JOIN unite JOIN promotion JOIN section JOIN niveau
getMatiereById(id) ==
  id \in DOMAIN matiere /\ matiere[id].id_unite \in DOMAIN unite
  /\ getPromotionById(unite[matiere[id].id_unite].id_promotion)

\* deleteMatiere(id): no reference check, the one in the source is commented out
deleteMatiere(id) ==
  /\ IF ~getMatiereById(id)
     THEN response' = errorResponse("deleteMatiere", "Matiere not found", 404)
          /\ UNCHANGED matiere
     ELSE response' = queryOk("deleteMatiere") /\ matiere' = Without(matiere, id)
  /\ UNCHANGED <<unite, promotion, autresTables>>

\* deleteUnite(id)
deleteUnite(id) ==
  /\ IF ~getUniteById(id)
     THEN response' = errorResponse("deleteUnite", "Unite not found", 404)
          /\ UNCHANGED unite
     ELSE IF \E m \in DOMAIN matiere : matiere[m].id_unite = id
     THEN response' = errorResponse("deleteUnite", "Cannot delete unite that has matieres", 400)
          /\ UNCHANGED unite
     ELSE response' = queryOk("deleteUnite") /\ unite' = Without(unite, id)
  /\ UNCHANGED <<matiere, promotion, autresTables>>

\* deletePromotion(id): no reference check, the one in the source is commented out
deletePromotion(id) ==
  /\ IF ~getPromotionById(id)
     THEN response' = errorResponse("deletePromotion", "Promotion not found", 404)
          /\ UNCHANGED promotion
     ELSE response' = queryOk("deletePromotion") /\ promotion' = Without(promotion, id)
  /\ UNCHANGED <<matiere, unite, autresTables>>

\* updateMatiere(id, matiereData), matiereData holding at most id_unite.  All
\* subjects of the model share one designation, so the designation query
\* returns the other subjects of the target unit.
updateMatiere(id, matiereData) ==
  LET op == "updateMatiere"
      uniteId == IF Given(matiereData, "id_unite") THEN matiereData["id_unite"]
                 ELSE matiere[id].id_unite
  IN
  /\ UNCHANGED <<unite, promotion, autresTables>>
  /\ IF ~getMatiereById(id) THEN
       response' = errorResponse(op, "Matiere not found", 404) /\ UNCHANGED matiere
     ELSE IF DOMAIN matiereData = {} THEN
       response' = errorResponse(op, "No data provided for update", 400) /\ UNCHANGED matiere
     ELSE IF Given(matiereData, "id_unite") /\ ~getUniteById(matiereData["id_unite"]) THEN
       response' = errorResponse(op, "Unite not found", 404) /\ UNCHANGED matiere
     ELSE IF /\ Given(matiereData, "id_unite")
             /\ \E m \in DOMAIN matiere \ {id} : matiere[m].id_unite = uniteId THEN
       /\ response' = errorResponse(op, "A matiere with this designation already exists in this unite", 409)
       /\ UNCHANGED matiere
     ELSE
       /\ matiere' = [matiere EXCEPT ![id] =
                        [f \in DOMAIN matiere[id] |->
                           IF f \in DOMAIN matiereData THEN matiereData[f]
                           ELSE matiere[id][f]]]
       /\ response' = queryOk(op)

\* updatePromotion(id, promotionData), promotionData holding at most
\* id_niveau.  All promotions of the model belong to one section, so the
\* duplicate query returns the other promotions of the target level.
updatePromotion(id, promotionData) ==
  LET op == "updatePromotion" IN
  /\ UNCHANGED <<matiere, unite, autresTables>>
  /\ IF ~getPromotionById(id) THEN
       response' = errorResponse(op, "Promotion not found", 404) /\ UNCHANGED promotion
     ELSE IF DOMAIN promotionData = {} THEN
       response' = errorResponse(op, "No data provided for update", 400) /\ UNCHANGED promotion
     ELSE IF Given(promotionData, "id_niveau") /\ promotionData["id_niveau"] \notin Niveaux THEN
       response' = errorResponse(op, "Niveau not found", 404) /\ UNCHANGED promotion
     ELSE IF /\ Given(promotionData, "id_niveau")
             /\ \E q \in DOMAIN promotion \ {id} :
                  promotion[q].id_niveau = promotionData["id_niveau"] THEN
       /\ response' = errorResponse(op, "A promotion already exists for this section and level", 409)
       /\ UNCHANGED promotion
     ELSE
       /\ promotion' = [promotion EXCEPT ![id] =
                          [f \in DOMAIN promotion[id] |->
                             IF f \in DOMAIN promotionData THEN promotionData[f]
                             ELSE promotion[id][f]]]
       /\ response' = queryOk(op)

(* -------------------- grading over a changing hierarchy ---------------- *)
SupprimerMatiere == deleteMatiere(1)

SupprimerUnite == deleteUnite(1)

SupprimerPromotion == deletePromotion(1)

ModifierMatiere ==
  \E matiereData \in {<<>>, [id_unite |-> NoId], [id_unite |-> 1], [id_unite |-> 2]} :
    updateMatiere(1, matiereData)

ModifierPromotion ==
  \E promotionData \in {<<>>, [id_niveau |-> 1], [id_niveau |-> 2], [id_niveau |-> 3]} :
    updatePromotion(1, promotionData)

NextNiveau ==
  \/ CreerJuryAffectation
  \/ AssignerJury
  \/ SetFiche
  \/ SupprimerMatiere
  \/ SupprimerUnite
  \/ SupprimerPromotion
  \/ ModifierMatiere
  \/ ModifierPromotion
  \/ ModifierCoteAffectation
  \/ VerifierAffectation

SpecNiveau == Init /\ [][NextNiveau]_vars

(* --------------------------- academic years ---------------------------- *)
\* !debut || !fin || isNaN(debut) || isNaN(fin), on numbers
AnneesInvalides(debut, fin) == debut = 0 \/ fin = 0

\* FinAvantDebut without the equal years
FinAvantDebutStrict(debut, fin) == fin < debut

\* if (fin <= debut)
FinAvantDebut(debut, fin) == fin <= debut

\* what createAnnee and updateAnnee leave: the envelope and the table
AnneeOutcome(resp, rows) == [response |-> resp, annee |-> rows]

\* createAnnee(debut, fin)
CreateAnneeResult(debut, fin) ==
  LET op == "createAnnee" IN
  IF AnneesInvalides(debut, fin) THEN
    AnneeOutcome(errorResponse(op, "Les annees de debut et de fin doivent etre des nombres valides", 400), annee)
  ELSE IF FinAvantDebut(debut, fin) THEN
    AnneeOutcome(errorResponse(op, "L'annee de fin doit etre superieure a l'annee de debut", 400), annee)
  ELSE IF \E a \in DOMAIN annee : annee[a] = [debut |-> debut, fin |-> fin] THEN
    AnneeOutcome(errorResponse(op, "Cette annee academique existe deja", 409), annee)
  ELSE
    AnneeOutcome(queryOk(op), annee @@ (anneeAutoInc :> [debut |-> debut, fin |-> fin]))

createAnnee(debut, fin) ==
  LET r == CreateAnneeResult(debut, fin) IN
  /\ anneeAutoInc <= MaxAnneeId
  /\ response' = r.response
  /\ annee' = r.annee
  /\ anneeAutoInc' = IF r.response.success THEN anneeAutoInc + 1 ELSE anneeAutoInc
  /\ UNCHANGED <<agent, section, matiere, unite, promotion, administratif_etudiant,
                 parcoursTables, pc, juryTables, coteTables>>

\* updateAnnee(id, debut, fin)
UpdateAnneeResult(id, debut, fin) ==
  LET op == "updateAnnee" IN
  IF id \notin DOMAIN annee THEN
    AnneeOutcome(errorResponse(op, "Annee academique non trouvee", 404), annee)
  ELSE IF AnneesInvalides(debut, fin) THEN
    AnneeOutcome(errorResponse(op, "Les annees de debut et de fin doivent etre des nombres valides", 400), annee)
  ELSE IF FinAvantDebut(debut, fin) THEN
    AnneeOutcome(errorResponse(op, "L'annee de fin doit etre superieure a l'annee de debut", 400), annee)
  ELSE IF \E a \in DOMAIN annee \ {id} : annee[a] = [debut |-> debut, fin |-> fin] THEN
    AnneeOutcome(errorResponse(op, "Une autre annee academique avec ces valeurs existe deja", 409), annee)
  ELSE
    AnneeOutcome(queryOk(op), [annee EXCEPT ![id] = [debut |-> debut, fin |-> fin]])

updateAnnee(id, debut, fin) ==
  LET r == UpdateAnneeResult(id, debut, fin) IN
  /\ response' = r.response
  /\ annee' = r.annee
  /\ UNCHANGED <<agent, section, matiere, unite, promotion, administratif_etudiant,
                 anneeAutoInc, parcoursTables, pc, juryTables, coteTables>>

\* the years offered as debut and fin (0: not given)
Millesimes == 0..4

CreerAnnee == \E debut \in Millesimes, fin \in Millesimes : createAnnee(debut, fin)

ModifierAnnee ==
  \E id \in 1..MaxAnneeId, debut \in Millesimes, fin \in Millesimes :
    updateAnnee(id, debut, fin)

NextAnnee ==
  \/ CreerAnnee
  \/ ModifierAnnee

SpecAnnee == Init /\ [][NextAnnee]_vars

(* ------------- two modifierCote calls on the same column --------------- *)
\* the state after createJury({id_section: 1, designation: 'Jury ordinaire',
\* id_president: 1}), assignJuryToNiveau(1, 1, 1) and
\* setFicheCotation(1, 1, 1, {tp}), for each tp of Notes
InitChaine ==
  /\ agent = {1, 2}
  /\ section = (1 :> << <<"g", "e", "n", "i", "e">>, <<"M", "e", "c", "a">> >>) @@
               (2 :> << <<"d", "r", "o", "i", "t">> >>)
  /\ matiere = (1 :> [id_unite |-> 1])
  /\ unite = (1 :> [id_promotion |-> 1])
  /\ promotion = (1 :> [id_niveau |-> 1])
  /\ jury = (1 :> NewJury(1, "Jury ordinaire", GM001, 1, NoId, NoId, "normale"))
  /\ juryAutoInc = 2
  /\ niveau_jury = (1 :> [id_niveau |-> 1, id_jury |-> 1, id_annee |-> 1])
  /\ njAutoInc = 2
  /\ \E tp \in Notes :
       fiche_cotation = (1 :> [id_etudiant |-> 1, id_matiere |-> 1, id_annee |-> 1,
                               tp |-> tp, td |-> 0, examen |-> 0,
                               rattrapage |-> NoValue])
  /\ ficheAutoInc = 2
  /\ insertion = <<>>
  /\ response = queryOk("setFicheCotation")
  /\ administratif_etudiant = (1 :> [id_etudiant |-> 1])
  /\ promotion_etudiant = <<>>
  /\ peAutoInc = 1
  /\ pc = [p \in Procs |-> Idle]
  /\ annee = (1 :> [debut |-> 1, fin |-> 2])
  /\ anneeAutoInc = 2

\* modifierCote(1, 1, "tp", 20) and modifierCote(1, 1, "tp", 0) in flight at once
SpecChaine == InitChaine /\ [][ModifierCoteStep]_vars

(* ------------------- deleting agents and grade sheets ------------------ *)
\* AgentModel.deleteAgent(id): no reference check, the one in the source is
\* commented out
deleteAgent(id) ==
  /\ IF id \notin agent
     THEN response' = errorResponse("deleteAgent", "Agent not found", 404)
          /\ UNCHANGED agent
     ELSE response' = queryOk("deleteAgent") /\ agent' = agent \ {id}
  /\ UNCHANGED <<section, matiere, unite, promotion, administratif_etudiant, annee,
                 anneeAutoInc, parcoursTables, pc, juryTables, coteTables>>

\* EtudiantModel.deleteFicheCotation(id)
deleteFicheCotation(id) ==
  /\ IF id \notin DOMAIN fiche_cotation
     THEN response' = errorResponse("deleteFicheCotation", "Fiche de cotation non trouvee", 404)
          /\ UNCHANGED fiche_cotation
     ELSE response' = queryOk("deleteFicheCotation")
          /\ fiche_cotation' = Without(fiche_cotation, id)
  /\ UNCHANGED <<refTables, parcoursTables, pc, juryTables, ficheAutoInc, insertion>>

SupprimerAgent == \E id \in AgentIds : deleteAgent(id)

SupprimerFiche == \E id \in FicheIds : deleteFicheCotation(id)

\* setFicheCotation while the table's AUTO_INCREMENT is within the bound
CreerFiche == ficheAutoInc <= MaxFicheId /\ SetFiche

JournaliserCote ==
  \E agentId \in AgentIds, ficheId \in FicheIds :
    logInsertion(ficheId, agentId, "tp", 0, Texte("motif"), 0, "none")

NextSuppression ==
  \/ CreerJuryAffectation
  \/ ModifierRoles
  \/ assignJuryToNiveau(1, 1, 1)
  \/ CreerFiche
  \/ ModifierCoteAffectation
  \/ JournaliserCote
  \/ SupprimerAgent
  \/ SupprimerFiche

SpecSuppression == Init /\ [][NextSuppression]_vars

(* ------------------------- claims on the grading ----------------------- *)
InRange(v) == 0 <= v /\ v <= 20

\* the fiche's subject -> unit -> promotion -> level chain is complete
LevelResolves(ficheId) ==
  LET m == fiche_cotation[ficheId].id_matiere IN
  /\ m \in DOMAIN matiere
  /\ matiere[m].id_unite \in DOMAIN unite
  /\ unite[matiere[m].id_unite].id_promotion \in DOMAIN promotion

LevelOf(ficheId) ==
  promotion[unite[matiere[fiche_cotation[ficheId].id_matiere].id_unite].id_promotion].id_niveau

\* the jurys assigned to the fiche's (level, year) in which the agent
\* is president, secretary or member
JurysFor(agentId, ficheId) ==
  IF ~LevelResolves(ficheId) THEN {}
  ELSE {j \in JuryIds :
          /\ agentId \in {jury[j].id_president, jury[j].id_secretaire, jury[j].id_membre}
          /\ \E nj \in DOMAIN niveau_jury :
               niveau_jury[nj] = [id_niveau |-> LevelOf(ficheId), id_jury |-> j,
                                  id_annee |-> fiche_cotation[ficheId].id_annee]}

\* the outcome of the call with every query running, free text or none, and
\* jury j first among the rows of juryCheck
Try(ficheId, agentId, cote, nouvelleValeur, description, j) ==
  ModifierCoteResult(ficheId, agentId, cote, nouvelleValeur, description, 0, "none", j)

\* outcome r leaves the ledger and the log as they are
NoEffect(r) == r.fiche_cotation = fiche_cotation /\ r.insertion = insertion

\* outcome r appended exactly one row, for (ficheId, agentId, cote), whose
\* last_val is the value the column holds now, before the call
OneEntryAppended(r, ficheId, agentId, cote) ==
  /\ Len(r.insertion) = Len(insertion) + 1
  /\ SubSeq(r.insertion, 1, Len(insertion)) = insertion
  /\ r.insertion[Len(r.insertion)].id_fiche_cotation = ficheId
  /\ r.insertion[Len(r.insertion)].id_agent = agentId
  /\ r.insertion[Len(r.insertion)].cote = cote
  /\ r.insertion[Len(r.insertion)].last_val = fiche_cotation[ficheId][cote]

\* C1 (as claimed): modifierCote succeeds iff the value is in [0, 20] and the
\* agent holds a role in some jury assigned to the fiche's (level, year) that,
\* for rattrapage, is not "restreinte".
C1_SucceedsIff ==
  \A f \in DOMAIN fiche_cotation, a \in agent, c \in validCotes, v \in Valeurs :
    \A j \in FirstRows(f, a) :
      Try(f, a, c, v, Texte(""), j).response.success <=>
        /\ InRange(v)
        /\ \E k \in JurysFor(a, f) :
             c # "rattrapage" \/ jury[k].autorisation # "restreinte"

C3_WriteAndLogAtomic ==
  [][response'.op = "modifierCote" =>
       \A f \in DOMAIN fiche_cotation, k \in validCotes :
         fiche_cotation'[f][k] # fiche_cotation[f][k] =>
           /\ Len(insertion') = Len(insertion) + 1
           /\ insertion'[Len(insertion')].id_fiche_cotation = f
           /\ insertion'[Len(insertion')].cote = k]_vars

\* C4 (as claimed): every change of a stored grade column of an existing
\* fiche comes with a new insertion row for that fiche and column, holding
\* the old value and made by an agent authorized for the fiche.
C4_EveryMutationAudited ==
  [][response'.op # "modifierCote" =>
       \A f \in (DOMAIN fiche_cotation) \cap (DOMAIN fiche_cotation'), k \in validCotes :
         fiche_cotation'[f][k] # fiche_cotation[f][k] =>
           /\ Len(insertion') = Len(insertion) + 1
           /\ insertion'[Len(insertion')].id_fiche_cotation = f
           /\ insertion'[Len(insertion')].cote = k
           /\ insertion'[Len(insertion')].last_val = fiche_cotation[f][k]
           /\ JurysFor(insertion'[Len(insertion')].id_agent, f) # {}]_vars

\* C5: the rows of insertion are never changed or removed; the table only
\* grows at its end.
C5_AppendOnly ==
  [][/\ Len(insertion') >= Len(insertion)
     /\ \A i \in 1..Len(insertion) : insertion'[i] = insertion[i]]_vars

\* a second, different row was appended after a first one
C5_Witness == Len(insertion) >= 2 /\ insertion[1] # insertion[2]

\* C6: an agent with no role in any jury assigned to the fiche's (level,
\* year) gets 403 for every valid column and in-range value, with no effect.
C6_NoRoleDenied ==
  \A f \in DOMAIN fiche_cotation, a \in agent :
    (LevelResolves(f) /\ JurysFor(a, f) = {}) =>
      \A c \in validCotes, v \in {x \in Valeurs : InRange(x)},
         d \in {Texte(""), Texte("motif")}, j \in FirstRows(f, a) :
        LET r == Try(f, a, c, v, d, j) IN
        /\ ~r.response.success /\ r.response.code = 403 /\ ~r.response.thrown
        /\ NoEffect(r)

\* a call was refused for lack of a role while the agent presides a jury
\* that is assigned to another level only
C6_Witness ==
  /\ response.op = "modifierCote"
  /\ response.error = "Agent is not authorized to modify this grade"
  /\ 1 \in DOMAIN fiche_cotation
  /\ JurysFor(1, 1) = {} /\ JurysFor(2, 1) = {}
  /\ \E j \in JuryIds, nj \in DOMAIN niveau_jury :
       /\ jury[j].id_president = 1
       /\ niveau_jury[nj].id_jury = j /\ niveau_jury[nj].id_niveau = 2

\* C7: a value outside [0, 20] gets 400 whatever the agent's roles, with no
\* effect.
C7_OutOfRangeRejected ==
  \A f \in DOMAIN fiche_cotation, a \in agent, c \in validCotes,
     v \in {x \in Valeurs : ~InRange(x)}, d \in {Texte(""), Texte("motif")} :
    \A j \in FirstRows(f, a) :
      LET r == Try(f, a, c, v, d, j) IN
      /\ ~r.response.success /\ r.response.code = 400 /\ ~r.response.thrown
      /\ NoEffect(r)

\* an out-of-range value was refused while agent 1 is authorized on fiche 1
C7_Witness ==
  /\ response.op = "modifierCote"
  /\ response.error = "La cote doit etre comprise entre 0 et 20"
  /\ 1 \in DOMAIN fiche_cotation
  /\ \E j \in JurysFor(1, 1) : jury[j].autorisation = "normale"

\* the jurys matched for (agent, fiche) exist and are all "restreinte"
MatchedRestreinte(agentId, ficheId) ==
  /\ JurysFor(agentId, ficheId) # {}
  /\ \A k \in JurysFor(agentId, ficheId) : jury[k].autorisation = "restreinte"

\* C8: when the jury matched for the agent is "restreinte", verifierAutorisation
\* permits exactly tp, td, examen; modifierCote on rattrapage fails (403 for an
\* in-range value) with no effect; modifierCote on tp, td, examen with an
\* in-range value succeeds, writes it and appends one row with the prior value.
C8_RestreinteScope ==
  \A f \in DOMAIN fiche_cotation, a \in agent :
    MatchedRestreinte(a, f) =>
      \A j \in FirstRows(f, a) :
        /\ LET p == VerifierAutorisationResult(a, f, "none", j) IN
           /\ p.success
           /\ {c \in validCotes : p.data.autorisations[c]} = {"tp", "td", "examen"}
        /\ \A v \in Valeurs :
             LET r == Try(f, a, "rattrapage", v, Texte(""), j) IN
             /\ ~r.response.success
             /\ InRange(v) => r.response.code = 403
             /\ NoEffect(r)
        /\ \A c \in {"tp", "td", "examen"}, v \in {x \in Valeurs : InRange(x)} :
             LET r == Try(f, a, c, v, Texte(""), j) IN
             /\ r.response.success
             /\ r.fiche_cotation = [fiche_cotation EXCEPT ![f][c] = v]
             /\ OneEntryAppended(r, f, a, c)

\* the secretary of the only matched jury, a "restreinte" one, has modified
\* examen; rattrapage is still unset
C8_Witness ==
  /\ response.op = "modifierCote" /\ response.success
  /\ MatchedRestreinte(1, 1)
  /\ \E j \in JurysFor(1, 1) : jury[j].id_secretaire = 1
  /\ insertion # <<>>
  /\ insertion[Len(insertion)].cote = "examen"
  /\ insertion[Len(insertion)].id_agent = 1
  /\ fiche_cotation[1].examen = 20
  /\ fiche_cotation[1].rattrapage = NoValue

(* --------------------- claims on the jury registry --------------------- *)
Max(S) == CHOOSE x \in S : \A y \in S : y <= x

\* code is prefix, "-", then digits only
SharesPrefix(code, prefix) ==
  /\ Len(code) > Len(prefix) + 1
  /\ SubSeq(code, 1, Len(prefix) + 1) = prefix \o <<"-">>
  /\ \A i \in (Len(prefix) + 2)..Len(code) : IsDigit(code[i])

\* the numbers of the existing codes that share the prefix
NumbersOf(prefix) ==
  {ParseInt(SubSeq(jury[j].code, Len(prefix) + 2, Len(jury[j].code))) :
     j \in {k \in JuryIds : SharesPrefix(jury[k].code, prefix)}}

\* C9 (as claimed): generateJuryCode for a section with prefix P is "P-001"
\* when the section has no jury, and otherwise "P-NNN" with NNN one more than
\* the highest number among the existing codes sharing the prefix (checked
\* where the codes with prefix P are exactly those of the section's jurys).
C9_NextCodeAfterHighest ==
  \A s \in DOMAIN section :
    LET P == Initials(section[s]) IN
    (\A k \in JuryIds : SharesPrefix(jury[k].code, P) <=> jury[k].id_section = s) =>
      generateJuryCode(s) =
        IF JurysOfSection(s) = {}
        THEN P \o <<"-", "0", "0", "1">>
        ELSE P \o <<"-">> \o PadStart3(NumToString(Max(NumbersOf(P)) + 1))

\* C10 (as claimed): no two jurys have the same code.
C10_CodesUnique ==
  \A i \in JuryIds, j \in JuryIds : i # j => jury[i].code # jury[j].code

(* ------------------- claims on deletion and removal -------------------- *)
\* jury j is referenced by a Level-Jury Assignment
Referenced(j) == \E nj \in DOMAIN niveau_jury : niveau_jury[nj].id_jury = j

\* C11 (as claimed): deleteJury on a jury referenced by an assignment fails
\* with Conflict (409) and leaves jurys and assignments in place; deleteJury
\* on an existing jury with no assignment succeeds and removes it.  Stated on
\* the deleteJury steps taken when every stored jury is referenced, and on
\* those taken when none is.
C11_DeleteJuryConflict ==
  [][response'.op = "deleteJury" =>
       /\ (JuryIds # {} /\ \A j \in JuryIds : Referenced(j)) =>
            /\ jury' = jury /\ niveau_jury' = niveau_jury
            /\ ~response'.success
            /\ response'.code \in {404, 409}
       /\ (\A j \in JuryIds : ~Referenced(j)) =>
            \/ response'.success /\ \E j \in JuryIds : jury' = Without(jury, j)
            \/ response'.code = 404 /\ jury' = jury]_vars

\* audit entry i was authorized through assignment x: its agent holds a role
\* in the jury of x, and its sheet lies under the level and year of x
AuthorizedThrough(i, x) ==
  LET f == insertion[i].id_fiche_cotation IN
  /\ niveau_jury[x].id_jury \in JuryIds
  /\ insertion[i].id_agent \in AgentIdsOf(niveau_jury[x].id_jury)
  /\ f \in DOMAIN fiche_cotation
  /\ LevelResolves(f)
  /\ LevelOf(f) = niveau_jury[x].id_niveau
  /\ fiche_cotation[f].id_annee = niveau_jury[x].id_annee

\* assignment x has an audit entry authorized through it
Traced(x) == \E i \in 1..Len(insertion) : AuthorizedThrough(i, x)

\* C12 (as claimed): removeJuryFromNiveau fails with Conflict (409) and keeps
\* the assignment whenever an audit entry authorized through it exists;
\* otherwise it succeeds and removes the assignment.  Stated on the
\* removeJuryFromNiveau steps: an assignment with such an entry is never
\* removed, a step taken when every assignment has one fails, and a step
\* taken when none has one removes its target or finds no target.
C12_RemoveAssignmentConflict ==
  [][response'.op = "removeJuryFromNiveau" =>
       /\ \A x \in DOMAIN niveau_jury :
            Traced(x) => x \in DOMAIN niveau_jury' /\ niveau_jury'[x] = niveau_jury[x]
       /\ (niveau_jury # <<>> /\ \A x \in DOMAIN niveau_jury : Traced(x)) =>
            ~response'.success /\ response'.code \in {404, 409}
       /\ (\A x \in DOMAIN niveau_jury : ~Traced(x)) =>
            \/ response'.success
               /\ \E x \in DOMAIN niveau_jury : niveau_jury' = Without(niveau_jury, x)
            \/ response'.code = 404 /\ niveau_jury' = niveau_jury]_vars

(* --------------------- claims on the authorization --------------------- *)
\* C13: authorization is decided from the current jury and assignment rows
\* on every call: in every state, also after updateJury took the agent out of
\* its slots or the assignment was removed, an agent with no role in a jury
\* assigned to the sheet's (level, year) gets 403 from verifierAutorisation
\* and from modifierCote, and an agent with one is authorized by both.
C13_AuthorizationReevaluated ==
  \A f \in DOMAIN fiche_cotation, a \in agent :
    LevelResolves(f) =>
      \A j \in FirstRows(f, a) :
        LET p == VerifierAutorisationResult(a, f, "none", j)
            r == Try(f, a, "tp", 20, Texte(""), j).response
        IN
        IF JurysFor(a, f) = {}
        THEN /\ ~p.success /\ p.code = 403
             /\ ~r.success /\ r.code = 403
        ELSE p.success /\ r.success

\* agent 1 modified a grade of sheet 1 earlier, was then taken out of the
\* jury that is still assigned to level 1, and has just been refused
C13_Witness ==
  /\ response.op = "modifierCote" /\ response.code = 403
  /\ \E i \in 1..Len(insertion) :
       insertion[i].id_agent = 1 /\ insertion[i].id_fiche_cotation = 1
  /\ 1 \in DOMAIN fiche_cotation
  /\ JurysFor(1, 1) = {}
  /\ \E x \in DOMAIN niveau_jury :
       /\ niveau_jury[x].id_niveau = 1
       /\ niveau_jury[x].id_jury \in JuryIds
       /\ jury[niveau_jury[x].id_jury].id_president = NoId

(* ---------------------- claims on the error paths ---------------------- *)
\* C14 (as claimed): no operation raises an exception: whatever the outcome,
\* a storage fault on any of its queries included, the call returns the
\* result envelope (the last call never ended in a thrown error).
C14_NoException == ~response.thrown

(* ------------------------- claims on the races ------------------------- *)
\* C15 (as claimed): whatever the interleaving of deleteJury with
\* assignJuryToNiveau, no state holds an assignment whose jury is gone.
C15_NoDanglingAssignment ==
  \A x \in DOMAIN niveau_jury : niveau_jury[x].id_jury \in JuryIds

\* C17 (as claimed): whatever the sequence or interleaving of
\* assignJuryToNiveau calls, at most one niveau_jury row exists per
\* (level, jury, year).
C17_AssignmentUnique ==
  \A x \in DOMAIN niveau_jury, y \in DOMAIN niveau_jury :
    x # y => niveau_jury[x] # niveau_jury[y]


\* C16 (as claimed): whatever the interleaving of removeJuryFromNiveau with
\* modifierCote, no grade write commits on the strength of an assignment
\* already removed at the time of the write.  Stated on the UPDATE step of a
\* modifierCote in flight: when it runs, the jury its checks found is still
\* assigned to the sheet's (level, year).
C16_WriteUnderLiveAssignment ==
  [][\A p \in {"mod", "mod2"} :
       (pc[p].at = "update" /\ pc'[p].at = "log") =>
         \E x \in DOMAIN niveau_jury :
           niveau_jury[x] = [id_niveau |-> LevelOf(1), id_jury |-> pc[p].j,
                             id_annee |-> fiche_cotation[1].id_annee]]_vars


(* ---------------------- claims on the designations --------------------- *)
\* C18 (as claimed): after any sequence of createJury and updateJury calls,
\* no two jurys of the same section share a designation.
C18_DesignationUnique ==
  \A j \in JuryIds, k \in JuryIds :
    (j # k /\ jury[j].id_section = jury[k].id_section) =>
      jury[j].designation # jury[k].designation




(* ------------------------ claims on the grades ------------------------- *)
\* C19: after any sequence of setFicheCotation and modifierCote calls, each
\* of tp, td, examen on every grade sheet is between 0 and 20, and
\* rattrapage is either unset or between 0 and 20.
C19_ComponentsInRange ==
  \A f \in DOMAIN fiche_cotation :
    /\ \A c \in {"tp", "td", "examen"} : fiche_cotation[f][c] \in 0..20
    /\ fiche_cotation[f].rattrapage = NoValue \/ fiche_cotation[f].rattrapage \in 0..20

\* a sheet written by setFicheCotation and then by modifierCote holds the
\* upper limit in tp and in rattrapage
C19_Witness ==
  /\ response.op = "modifierCote" /\ response.success
  /\ \E f \in DOMAIN fiche_cotation :
       fiche_cotation[f].tp = 20 /\ fiche_cotation[f].rattrapage = 20


\* the status the claim gives a sheet
StatusOf(tp, td, examen, rattrapage) ==
  IF tp + td + examen >= 10 THEN "Reussi"
  ELSE IF rattrapage # NoValue /\ rattrapage >= 10 THEN "Reussi via rattrapage"
  ELSE IF rattrapage # NoValue /\ rattrapage < 10 THEN "Echoue apres rattrapage"
  ELSE "Echoue"

Reports == {"getFichesCotationByEtudiant", "getFichesCotationByMatiere"}

\* C20: the status a report derives for a sheet is "Reussi" if
\* tp+td+examen >= 10; otherwise "Reussi via rattrapage" if rattrapage is
\* set and >= 10; otherwise "Echoue apres rattrapage" if it is set and
\* < 10; otherwise "Echoue", for every combination of component values, and
\* the report writes nothing to the sheet.  Stated on the report steps.
C20_ResultatDerivation ==
  [][(response'.op \in Reports /\ response'.success) =>
       /\ fiche_cotation' = fiche_cotation
       /\ \A f \in DOMAIN response'.data :
            /\ f \in DOMAIN fiche_cotation
            /\ response'.data[f].total =
                 fiche_cotation[f].tp + fiche_cotation[f].td + fiche_cotation[f].examen
            /\ response'.data[f].resultat =
                 StatusOf(fiche_cotation[f].tp, fiche_cotation[f].td,
                          fiche_cotation[f].examen, fiche_cotation[f].rattrapage)]_vars

\* a report on a sheet whose total is 9 and whose retake is 10
C20_Witness ==
  /\ response.op \in Reports /\ response.success
  /\ \E f \in DOMAIN response.data :
       /\ response.data[f].total = 9 /\ response.data[f].rattrapage = 10
       /\ response.data[f].resultat = "Reussi via rattrapage"

(* ----------------------- claims on the check order --------------------- *)
\* C21 (as claimed): modifierCote checks the component name, then the value
\* range, then the sheet and the agent: an invalid component name or an
\* out-of-range value yields 400 even when the grade sheet or the agent does
\* not exist.
C21_ArgumentsCheckedFirst ==
  \A f \in FicheIds, a \in AgentIds, c \in Cotes, v \in Valeurs :
    (c \notin validCotes \/ ~InRange(v)) =>
      \A j \in FirstRows(f, a) :
        Try(f, a, c, v, Texte(""), j).response.code = 400


(* ------------------- claims on verifierAutorisation -------------------- *)
\* the label of the slot the agent occupies in jury j
SlotLabel(j, agentId) ==
  CASE jury[j].id_president = agentId -> "president"
    [] jury[j].id_president # agentId /\ jury[j].id_secretaire = agentId -> "secretaire"
    [] OTHER -> "membre"

\* C22: for an existing sheet (whose level resolves) and an existing agent,
\* verifierAutorisation fails with 403 exactly when no jury assigned to the
\* sheet's (level, year) has the agent as president, secretary or member;
\* when it succeeds it returns the id of such a jury and the label of the
\* slot the agent occupies in it (president, else secretaire, else membre);
\* and a verifierAutorisation step modifies no table.
C22_VerifierAutorisation ==
  /\ [](\A f \in DOMAIN fiche_cotation, a \in agent :
          LevelResolves(f) =>
            \A j \in FirstRows(f, a) :
              LET p == VerifierAutorisationResult(a, f, "none", j) IN
              IF JurysFor(a, f) = {}
              THEN ~p.success /\ p.code = 403
              ELSE /\ p.success
                   /\ p.data.jury_id \in JurysFor(a, f)
                   /\ p.data.role = SlotLabel(p.data.jury_id, a))
  /\ [][response'.op = "verifierAutorisation" =>
          UNCHANGED <<refTables, parcoursTables, juryTables, coteTables>>]_vars

\* agent 1, secretary of a jury assigned to the level of sheet 1, has just
\* been authorized through that jury
C22_Witness ==
  /\ response.op = "verifierAutorisation" /\ response.success
  /\ 1 \in DOMAIN fiche_cotation
  /\ response.data.jury_id \in JurysFor(1, 1)
  /\ response.data.role = "secretaire"


\* C23 (as claimed): for an existing sheet and agent, a component c and an
\* in-range value, modifierCote passes its authorization if and only if
\* verifierAutorisation on the same (agent, sheet) succeeds and reports c as
\* permitted, whichever rows the two juryCheck queries return first.
C23_ModifierAgreesWithVerifier ==
  \A f \in DOMAIN fiche_cotation, a \in agent, c \in validCotes :
    LevelResolves(f) =>
      \A j \in FirstRows(f, a), k \in FirstRows(f, a) :
        LET p == VerifierAutorisationResult(a, f, "none", k) IN
        Try(f, a, c, 20, Texte(""), j).response.success <=>
          (p.success /\ p.data.autorisations[c])


\* C27 (as claimed): the outcome of modifierCote and verifierAutorisation
\* is a function of the stored state and the arguments: whichever of the
\* matching jury rows the query returns first, the result is the same (same
\* success or failure for rattrapage, same permitted components, same jury
\* id).
C27_OutcomeIndependentOfRowOrder ==
  \A f \in DOMAIN fiche_cotation, a \in agent :
    \A j \in FirstRows(f, a), k \in FirstRows(f, a) :
      /\ VerifierAutorisationResult(a, f, "none", j) =
           VerifierAutorisationResult(a, f, "none", k)
      /\ Try(f, a, "rattrapage", 20, Texte(""), j).response =
           Try(f, a, "rattrapage", 20, Texte(""), k).response


(* --------------------- claims on the level resolution ------------------ *)
\* C24: when the sheet's subject, the subject's unit or the unit's promotion
\* is missing, verifierAutorisation and modifierCote fail with 404 and have
\* no effect; otherwise the level used for the jury lookup is the id_niveau
\* of the promotion owning the subject's unit: the agent is authorized
\* exactly when a jury assigned to that level and the sheet's year holds the
\* agent, and the jury returned is such a jury.
C24_LevelResolution ==
  \A f \in DOMAIN fiche_cotation, a \in agent :
    \A j \in FirstRows(f, a) :
      LET p == VerifierAutorisationResult(a, f, "none", j)
          r == Try(f, a, "tp", 20, Texte(""), j)
      IN
      IF ~LevelResolves(f)
      THEN /\ ~p.success /\ p.code = 404
           /\ ~r.response.success /\ r.response.code = 404
           /\ NoEffect(r)
      ELSE /\ p.success <=> JurysFor(a, f) # {}
           /\ r.response.success <=> JurysFor(a, f) # {}
           /\ p.success => p.data.jury_id \in JurysFor(a, f)

\* modifierCote on sheet 1 has just been refused with 404 because the
\* promotion of the subject's unit is gone, after a grade of the sheet had
\* been modified
C24_Witness ==
  /\ response.op = "modifierCote" /\ response.code = 404
  /\ 1 \in DOMAIN fiche_cotation
  /\ fiche_cotation[1].id_matiere \in DOMAIN matiere
  /\ matiere[fiche_cotation[1].id_matiere].id_unite \in DOMAIN unite
  /\ unite[matiere[fiche_cotation[1].id_matiere].id_unite].id_promotion \notin DOMAIN promotion
  /\ Len(insertion) > 0


(* ------------------- claims on the records of a jury ------------------- *)
\* C25 (as claimed): getInsertionsByNiveauJury(x) returns every audit entry
\* authorized through assignment x, and no entry made on a sheet outside x's
\* (level, year).
C25_RecordsOfAssignment ==
  \A x \in DOMAIN niveau_jury :
    LET rows == getInsertionsByNiveauJury(x).data IN
    /\ \A i \in 1..Len(insertion) : AuthorizedThrough(i, x) => i \in rows
    /\ \A i \in rows :
         LET f == insertion[i].id_fiche_cotation IN
         /\ LevelResolves(f)
         /\ LevelOf(f) = niveau_jury[x].id_niveau
         /\ fiche_cotation[f].id_annee = niveau_jury[x].id_annee


(* -------------------- claims on the academic years --------------------- *)
\* outcome r refuses the call with the code and leaves the years as they are
Refused(r, code) == ~r.response.success /\ r.response.code = code /\ r.annee = annee

\* C26: after any sequence of createAnnee and updateAnnee calls, every
\* stored year has fin > debut and no two stored years have the same
\* (debut, fin) pair; a call with fin <= debut fails with 400, a call that
\* would store a pair already held by another year fails with 409, and
\* neither changes anything.
C26_AnneesValidesUniques ==
  /\ \A a \in DOMAIN annee : annee[a].fin > annee[a].debut
  /\ \A a \in DOMAIN annee, b \in DOMAIN annee : a # b => annee[a] # annee[b]
  /\ \A debut \in Millesimes, fin \in Millesimes :
       /\ fin <= debut => Refused(CreateAnneeResult(debut, fin), 400)
       /\ (fin > debut /\ debut # 0 /\
           \E a \in DOMAIN annee : annee[a] = [debut |-> debut, fin |-> fin]) =>
            Refused(CreateAnneeResult(debut, fin), 409)
       /\ \A id \in DOMAIN annee :
            /\ fin <= debut => Refused(UpdateAnneeResult(id, debut, fin), 400)
            /\ (fin > debut /\ debut # 0 /\
                \E a \in DOMAIN annee \ {id} : annee[a] = [debut |-> debut, fin |-> fin]) =>
                 Refused(UpdateAnneeResult(id, debut, fin), 409)

\* three years stored, and a createAnnee or updateAnnee just refused as a
\* duplicate
C26_Witness ==
  /\ response.op \in {"createAnnee", "updateAnnee"} /\ response.code = 409
  /\ Cardinality(DOMAIN annee) = 3

(* ----------------------- claims on the audit chain --------------------- *)
\* C28 (as claimed): under any interleaving of two modifierCote calls on
\* the same grade sheet and component, the audit entries form a chain: in
\* commit order, the pre-image of each entry is the value written by the
\* preceding mutation of that component, and once both calls have returned
\* the value written by the last entry is the current value.
C28_AuditChain ==
  /\ \A i \in 2..Len(insertion) :
       (/\ insertion[i].id_fiche_cotation = insertion[i - 1].id_fiche_cotation
        /\ insertion[i].cote = insertion[i - 1].cote) =>
         insertion[i].last_val = insertion[i - 1].description.a
  /\ (Len(insertion) > 0 /\ \A p \in {"mod", "mod2"} : pc[p].at \in {"idle", "done"}) =>
       fiche_cotation[insertion[Len(insertion)].id_fiche_cotation][insertion[Len(insertion)].cote]
         = insertion[Len(insertion)].description.a


(* ------------------ claims on the referential integrity ---------------- *)
\* C29 (as claimed): after any sequence of createJury, updateJury and
\* deleteAgent calls, every non-empty role slot of a jury (id_president,
\* id_secretaire, id_membre) refers to an existing agent.
C29_RoleHoldersExist ==
  \A j \in JuryIds : AgentIdsOf(j) \subseteq agent

\* C30 (as claimed): after any sequence of modifierCote, logInsertion,
\* deleteFicheCotation and deleteAgent calls, every audit entry refers to an
\* existing grade sheet and an existing agent.
C30_AuditEntriesRefer ==
  \A i \in 1..Len(insertion) :
    /\ insertion[i].id_fiche_cotation \in DOMAIN fiche_cotation
    /\ insertion[i].id_agent \in agent

====
